---- MODULE Spec2Model ----
(***************************************************************************)
(* Looplace: the PVT and 2-back trial engines together with the event      *)
(* loops (view coroutines) that drive them.                                *)
(*                                                                         *)
(* One task view is mounted at a time (`view`).  Each view owns one engine *)
(* and one event loop.  A spawned sleep-then-send future is an entry of    *)
(* the view's timer set carrying the instant it becomes due; delivering it *)
(* runs the matching handler of the coroutine as one atomic step.  User    *)
(* events (Start, Abort, Respond) can be delivered in any state, because   *)
(* they may already sit in the channel when the engine changes state.      *)
(* Time is in milliseconds.  Trial k of the source is trials[k + 1].       *)
(***************************************************************************)
EXTENDS Integers, Sequences, FiniteSets, TLC

VARIABLES
    view,        \* which task view is mounted: "pvt" or "nback"
    now,         \* the monotonic clock read by timing::now()
    pvtEngine,   \* PvtEngine (config, state, trials, run_id, ...)
    pvtSignals,  \* PvtView signals: last_metrics, last_error, qc_flags
    pvtTimers,   \* PvtView: sleeping futures that will send an event
    nbackEngine, \* NBackEngine (config, state, run_id, trials, cached metrics)
    nbackSignals,\* NBackView signals: practice_metrics, last_metrics, last_error, qc_flags
    nbackTimers, \* NBackView: sleeping futures that will send an event
    summaries,   \* the summary store behind storage::append_summary
    lastEvent    \* the event handled last and what the engine returned

pvtVars == <<pvtEngine, pvtSignals, pvtTimers>>
nbackVars == <<nbackEngine, nbackSignals, nbackTimers>>
vars == <<view, now, pvtVars, nbackVars, summaries, lastEvent>>

(***************************************************************************)
(* Bounds of the model.                                                    *)
(***************************************************************************)
MaxDepth == 3   \* trials of the first run (PVT: fewer than; 2-back: at most)
MaxTicks == 3   \* clock advances

(***************************************************************************)
(* Option<T>.                                                              *)
(***************************************************************************)
None == [some |-> FALSE]
Some(v) == [some |-> TRUE, value |-> v]

\* A bool result as lastEvent.ret holds it: every recorded result is a
\* record, so any two of them can be compared.
Flag(b) == [flag |-> b]

(***************************************************************************)
(* core::timing                                                            *)
(***************************************************************************)
duration_ms(start, end) == IF end >= start THEN end - start ELSE 0

(***************************************************************************)
(* f64 values.  A real number is kept exact, as a fraction num / den in    *)
(* lowest terms with den > 0; floating-point rounding is not modelled.     *)
(* A square root that is not taken (std_dev) is kept as the fraction under *)
(* it.  Every quantity of the model is a multiple of a simple fraction, so *)
(* the products below stay small.                                          *)
(***************************************************************************)
RECURSIVE GCD(_, _)
GCD(a, b) == IF b = 0 THEN a ELSE GCD(b, a % b)

Abs(n) == IF n < 0 THEN -n ELSE n

\* num / den for den # 0, in lowest terms
Rat(num, den) ==
    LET reduced(g) == IF den < 0 THEN [num |-> -(num \div g), den |-> -(den \div g)]
                                 ELSE [num |-> num \div g, den |-> den \div g]
    IN reduced(GCD(Abs(num), Abs(den)))

F64(n) == [num |-> n, den |-> 1]

\* a + b, over the least common denominator
RatAdd(a, b) ==
    LET over(g) == Rat(a.num * (b.den \div g) + b.num * (a.den \div g), (a.den \div g) * b.den)
    IN over(GCD(a.den, b.den))

RatNeg(a) == [num |-> -a.num, den |-> a.den]

RatSub(a, b) == RatAdd(a, [num |-> -b.num, den |-> b.den])

RatMul(a, b) == Rat(a.num * b.num, a.den * b.den)

\* a / b for b # 0
RatDiv(a, b) == Rat(a.num * b.den, a.den * b.num)

\* a < b and a <= b, by cross-multiplication (denominators are positive)
RatLess(a, b) == a.num * b.den < b.num * a.den

RatLeq(a, b) == a.num * b.den <= b.num * a.den

\* f64::floor and f64::ceil, as usize
RatFloor(a) == a.num \div a.den

RatCeil(a) == IF a.num % a.den = 0 THEN a.num \div a.den ELSE (a.num \div a.den) + 1

\* f64::clamp
RatClamp(a, lo, hi) ==
    IF a.num * lo.den < lo.num * a.den THEN lo
    ELSE IF hi.num * a.den < a.num * hi.den THEN hi
    ELSE a

\* f64::sqrt, not evaluated: the square root of 0 is 0, any other root is
\* named by the fraction under it.
Sqrt(a) == IF a.num = 0 THEN F64(0) ELSE [sqrt_of |-> a]

\* f64::is_finite
IsFinite(x) == IF "tag" \in DOMAIN x THEN x.tag = "Finite" ELSE TRUE

\* iter().sum()
RECURSIVE RatSum(_)
RatSum(data) == IF Len(data) = 0 THEN F64(0) ELSE RatAdd(data[1], RatSum(Tail(data)))

\* sort_by(partial_cmp): insertion into an ascending list
RECURSIVE SortInsert(_, _)
SortInsert(sorted, x) ==
    IF Len(sorted) = 0 THEN << x >>
    ELSE IF x.num * sorted[1].den <= sorted[1].num * x.den THEN << x >> \o sorted
    ELSE << sorted[1] >> \o SortInsert(Tail(sorted), x)

RECURSIVE SortAscending(_)
SortAscending(data) ==
    IF Len(data) = 0 THEN << >>
    ELSE SortInsert(SortAscending(Tail(data)), data[1])

(***************************************************************************)
(* tasks::pvt::engine                                                      *)
(***************************************************************************)
FALSE_START_THRESHOLD_MS == 100

\* The clock advances in steps of half the false-start threshold, so that
\* reaction times fall below, on and above the threshold.
ClockStepMs == FALSE_START_THRESHOLD_MS \div 2
MaxClock == MaxTicks * ClockStepMs

Pending == [tag |-> "Pending"]
Reaction(rt_ms) == [tag |-> "Reaction", rt_ms |-> rt_ms]
Lapse == [tag |-> "Lapse"]
FalseStart == [tag |-> "FalseStart"]

PvtIdle == [tag |-> "Idle"]
PvtWaiting(trial_index) == [tag |-> "Waiting", trial_index |-> trial_index]
PvtStimulusActive(trial_index) == [tag |-> "StimulusActive", trial_index |-> trial_index]
PvtCompleted == [tag |-> "Completed"]
PvtAborted == [tag |-> "Aborted"]

PvtScheduledStimulus(run_id, trial_index, wait_ms) ==
    [run_id |-> run_id, trial_index |-> trial_index, wait_ms |-> wait_ms]

NextScheduled(schedule) == [tag |-> "NextScheduled", schedule |-> schedule]
RunCompleted == [tag |-> "RunCompleted"]
Ignored == [tag |-> "Ignored"]

PvtConfig(target_trials, min_iti_ms, max_iti_ms, max_response_ms, min_reaction_trials) ==
    [target_trials |-> target_trials,
     min_iti_ms |-> min_iti_ms,
     max_iti_ms |-> max_iti_ms,
     max_response_ms |-> max_response_ms,
     min_reaction_trials |-> min_reaction_trials]

\* The configurations explored: every target count the depth bound lets a
\* run complete, with the stimulus due at once, and one configuration whose
\* interval range has two values (stimulus due at once or one clock step
\* later); the response window is two clock steps.
PvtConfigs ==
    { PvtConfig(t, 0, 0, 2 * ClockStepMs, 1) : t \in 0..(MaxDepth - 1) }
    \cup { PvtConfig(2, 0, 1, 2 * ClockStepMs, 1) }

\* The depth bound on an engine value: the first run is explored to its
\* trial MaxDepth - 2, a restart to its first trial.
PvtWithinDepth(eng) ==
    IF eng.run_id <= 1 THEN Len(eng.trials) < MaxDepth
                       ELSE eng.run_id = 2 /\ Len(eng.trials) <= 1

PvtTrial_new(index, iti_ms) ==
    [index |-> index,
     iti_ms |-> iti_ms,
     stimulus_onset |-> None,
     onset_since_start_ms |-> None,
     response_at |-> None,
     outcome |-> Pending]

PvtTrial_is_completed(trial) == trial.outcome # Pending

PvtEngine_new(config) ==
    [config |-> config,
     state |-> PvtIdle,
     trials |-> << >>,
     run_id |-> 0,
     run_started_at |-> None,
     run_finished_at |-> None,
     total_false_starts |-> 0]

\* Faulty variant: the false-start count survives a reset.
PvtEngine_reset_keeps_false_starts(eng) ==
    [eng EXCEPT !.state = PvtIdle,
                !.trials = << >>,
                !.run_started_at = None,
                !.run_finished_at = None]

PvtEngine_reset(eng) ==
    [eng EXCEPT !.state = PvtIdle,
                !.trials = << >>,
                !.run_started_at = None,
                !.run_finished_at = None,
                !.total_false_starts = 0]

\* rng.gen_range(min..=max): any value of the range (empty range: none).
PvtEngine_random_iti(eng) == eng.config.min_iti_ms .. eng.config.max_iti_ms

PvtEngine_completed_trial_count(eng) ==
    Cardinality({k \in 1..Len(eng.trials) : PvtTrial_is_completed(eng.trials[k])})

\* Faulty variant: the next trial is appended but the engine waits on the
\* index just finished.
PvtEngine_schedule_next_same_index(eng, just_finished, clock, iti) ==
    IF PvtEngine_completed_trial_count(eng) >= eng.config.target_trials
    THEN [eng |-> [eng EXCEPT !.state = PvtCompleted,
                              !.run_finished_at = Some(clock)],
          ret |-> RunCompleted]
    ELSE LET next_index == Len(eng.trials) IN
         [eng |-> [eng EXCEPT !.trials = Append(@, PvtTrial_new(next_index, iti)),
                              !.state = PvtWaiting(just_finished)],
          ret |-> NextScheduled(PvtScheduledStimulus(eng.run_id, just_finished, iti))]

\* `iti` is the value random_iti() draws, `clock` the value of timing::now().
PvtEngine_schedule_next(eng, just_finished, clock, iti) ==
    IF PvtEngine_completed_trial_count(eng) >= eng.config.target_trials
    THEN [eng |-> [eng EXCEPT !.state = PvtCompleted,
                              !.run_finished_at = Some(clock)],
          ret |-> RunCompleted]
    ELSE LET next_index == Len(eng.trials) IN
         [eng |-> [eng EXCEPT !.trials = Append(@, PvtTrial_new(next_index, iti)),
                              !.state = PvtWaiting(next_index)],
          ret |-> NextScheduled(PvtScheduledStimulus(eng.run_id, next_index, iti))]

\* Faulty variant: start does not look at the state.
PvtEngine_start_in_any_state(eng, clock, iti) ==
    LET fresh == PvtEngine_reset(eng)
        started == [fresh EXCEPT !.run_id = eng.run_id + 1,
                                 !.run_started_at = Some(clock),
                                 !.trials = << PvtTrial_new(0, iti) >>,
                                 !.state = PvtWaiting(0)]
    IN [eng |-> started,
        ret |-> Some(PvtScheduledStimulus(started.run_id, 0, started.trials[1].iti_ms))]

PvtEngine_start(eng, clock, iti) ==
    IF eng.state.tag \notin {"Idle", "Completed", "Aborted"}
    THEN [eng |-> eng, ret |-> None]
    ELSE LET fresh == PvtEngine_reset(eng)
             started == [fresh EXCEPT !.run_id = eng.run_id + 1,
                                      !.run_started_at = Some(clock),
                                      !.trials = << PvtTrial_new(0, iti) >>,
                                      !.state = PvtWaiting(0)]
         IN [eng |-> started,
             ret |-> Some(PvtScheduledStimulus(started.run_id, 0, started.trials[1].iti_ms))]

\* Faulty variant: only a running task is aborted.
PvtEngine_abort_only_active(eng, clock) ==
    IF eng.state.tag \in {"Waiting", "StimulusActive"}
    THEN [eng EXCEPT !.state = PvtAborted, !.run_finished_at = Some(clock)]
    ELSE eng

PvtEngine_abort(eng, clock) ==
    [eng EXCEPT !.state = PvtAborted, !.run_finished_at = Some(clock)]

\* Faulty variant: the index the engine waits on is not compared.
PvtEngine_mark_stimulus_on_any_index(eng, trial_index, timestamp) ==
    IF eng.state.tag # "Waiting"
    THEN [eng |-> eng, ret |-> FALSE]
    ELSE IF eng.run_started_at.some /\ trial_index < Len(eng.trials)
    THEN [eng |-> [eng EXCEPT
                     !.trials[trial_index + 1].stimulus_onset = Some(timestamp),
                     !.trials[trial_index + 1].onset_since_start_ms =
                         Some(duration_ms(eng.run_started_at.value, timestamp)),
                     !.state = PvtStimulusActive(trial_index)],
          ret |-> TRUE]
    ELSE [eng |-> eng, ret |-> FALSE]

\* Faulty variant: the stimulus is marked on without recording its onset.
PvtEngine_mark_stimulus_on_without_onset(eng, trial_index, timestamp) ==
    IF ~(eng.state.tag = "Waiting" /\ eng.state.trial_index = trial_index)
    THEN [eng |-> eng, ret |-> FALSE]
    ELSE IF eng.run_started_at.some /\ trial_index < Len(eng.trials)
    THEN [eng |-> [eng EXCEPT !.state = PvtStimulusActive(trial_index)],
          ret |-> TRUE]
    ELSE [eng |-> eng, ret |-> FALSE]

PvtEngine_mark_stimulus_on(eng, trial_index, timestamp) ==
    IF ~(eng.state.tag = "Waiting" /\ eng.state.trial_index = trial_index)
    THEN [eng |-> eng, ret |-> FALSE]
    ELSE IF eng.run_started_at.some /\ trial_index < Len(eng.trials)
    THEN [eng |-> [eng EXCEPT
                     !.trials[trial_index + 1].stimulus_onset = Some(timestamp),
                     !.trials[trial_index + 1].onset_since_start_ms =
                         Some(duration_ms(eng.run_started_at.value, timestamp)),
                     !.state = PvtStimulusActive(trial_index)],
          ret |-> TRUE]
    ELSE [eng |-> eng, ret |-> FALSE]

\* Faulty variant: a response exactly on the threshold is a false start.
PvtEngine_register_response_threshold_inclusive(eng, timestamp, clock, iti) ==
    IF eng.state.tag = "StimulusActive"
    THEN LET trial_index == eng.state.trial_index IN
         IF trial_index < Len(eng.trials) /\ eng.trials[trial_index + 1].stimulus_onset.some
         THEN LET rt_ms == duration_ms(eng.trials[trial_index + 1].stimulus_onset.value, timestamp)
                  stamped == [eng EXCEPT !.trials[trial_index + 1].response_at = Some(timestamp)]
                  scored ==
                      IF rt_ms <= FALSE_START_THRESHOLD_MS
                      THEN [stamped EXCEPT !.trials[trial_index + 1].outcome = FalseStart,
                                           !.total_false_starts = @ + 1]
                      ELSE [stamped EXCEPT !.trials[trial_index + 1].outcome = Reaction(rt_ms)]
              IN PvtEngine_schedule_next(scored, trial_index, clock, iti)
         ELSE [eng |-> eng, ret |-> Ignored]
    ELSE IF eng.state.tag = "Waiting"
    THEN LET trial_index == eng.state.trial_index
             marked ==
                 IF trial_index < Len(eng.trials)
                 THEN [eng EXCEPT !.trials[trial_index + 1].outcome = FalseStart,
                                  !.trials[trial_index + 1].response_at = Some(timestamp)]
                 ELSE eng
             counted == [marked EXCEPT !.total_false_starts = @ + 1]
         IN PvtEngine_schedule_next(counted, trial_index, clock, iti)
    ELSE [eng |-> eng, ret |-> Ignored]

\* Faulty variant: a response before the stimulus is not counted.
PvtEngine_register_response_uncounted_anticipation(eng, timestamp, clock, iti) ==
    IF eng.state.tag = "StimulusActive"
    THEN LET trial_index == eng.state.trial_index IN
         IF trial_index < Len(eng.trials) /\ eng.trials[trial_index + 1].stimulus_onset.some
         THEN LET rt_ms == duration_ms(eng.trials[trial_index + 1].stimulus_onset.value, timestamp)
                  stamped == [eng EXCEPT !.trials[trial_index + 1].response_at = Some(timestamp)]
                  scored ==
                      IF rt_ms < FALSE_START_THRESHOLD_MS
                      THEN [stamped EXCEPT !.trials[trial_index + 1].outcome = FalseStart,
                                           !.total_false_starts = @ + 1]
                      ELSE [stamped EXCEPT !.trials[trial_index + 1].outcome = Reaction(rt_ms)]
              IN PvtEngine_schedule_next(scored, trial_index, clock, iti)
         ELSE [eng |-> eng, ret |-> Ignored]
    ELSE IF eng.state.tag = "Waiting"
    THEN LET trial_index == eng.state.trial_index
             marked ==
                 IF trial_index < Len(eng.trials)
                 THEN [eng EXCEPT !.trials[trial_index + 1].outcome = FalseStart,
                                  !.trials[trial_index + 1].response_at = Some(timestamp)]
                 ELSE eng
         IN PvtEngine_schedule_next(marked, trial_index, clock, iti)
    ELSE [eng |-> eng, ret |-> Ignored]

PvtEngine_register_response(eng, timestamp, clock, iti) ==
    IF eng.state.tag = "StimulusActive"
    THEN LET trial_index == eng.state.trial_index IN
         IF trial_index < Len(eng.trials) /\ eng.trials[trial_index + 1].stimulus_onset.some
         THEN LET rt_ms == duration_ms(eng.trials[trial_index + 1].stimulus_onset.value, timestamp)
                  stamped == [eng EXCEPT !.trials[trial_index + 1].response_at = Some(timestamp)]
                  scored ==
                      IF rt_ms < FALSE_START_THRESHOLD_MS
                      THEN [stamped EXCEPT !.trials[trial_index + 1].outcome = FalseStart,
                                           !.total_false_starts = @ + 1]
                      ELSE [stamped EXCEPT !.trials[trial_index + 1].outcome = Reaction(rt_ms)]
              IN PvtEngine_schedule_next(scored, trial_index, clock, iti)
         ELSE [eng |-> eng, ret |-> Ignored]
    ELSE IF eng.state.tag = "Waiting"
    THEN LET trial_index == eng.state.trial_index
             marked ==
                 IF trial_index < Len(eng.trials)
                 THEN [eng EXCEPT !.trials[trial_index + 1].outcome = FalseStart,
                                  !.trials[trial_index + 1].response_at = Some(timestamp)]
                 ELSE eng
             counted == [marked EXCEPT !.total_false_starts = @ + 1]
         IN PvtEngine_schedule_next(counted, trial_index, clock, iti)
    ELSE [eng |-> eng, ret |-> Ignored]

\* Faulty variant: a timeout is applied whatever the state.
PvtEngine_register_timeout_in_any_state(eng, trial_index, clock, iti) ==
    LET lapsed ==
            IF trial_index < Len(eng.trials)
            THEN [eng EXCEPT !.trials[trial_index + 1].outcome = Lapse]
            ELSE eng
    IN PvtEngine_schedule_next(lapsed, trial_index, clock, iti)

\* Faulty variant: a timed-out trial is scored as a reaction as long as the
\* response window.
PvtEngine_register_timeout_as_reaction(eng, trial_index, clock, iti) ==
    IF ~(eng.state.tag = "StimulusActive" /\ eng.state.trial_index = trial_index)
    THEN [eng |-> eng, ret |-> Ignored]
    ELSE LET lapsed ==
                 IF trial_index < Len(eng.trials)
                 THEN [eng EXCEPT !.trials[trial_index + 1].outcome =
                                     Reaction(eng.config.max_response_ms)]
                 ELSE eng
         IN PvtEngine_schedule_next(lapsed, trial_index, clock, iti)

PvtEngine_register_timeout(eng, trial_index, clock, iti) ==
    IF ~(eng.state.tag = "StimulusActive" /\ eng.state.trial_index = trial_index)
    THEN [eng |-> eng, ret |-> Ignored]
    ELSE LET lapsed ==
                 IF trial_index < Len(eng.trials)
                 THEN [eng EXCEPT !.trials[trial_index + 1].outcome = Lapse]
                 ELSE eng
         IN PvtEngine_schedule_next(lapsed, trial_index, clock, iti)

(***************************************************************************)
(* tasks::pvt::metrics                                                     *)
(***************************************************************************)
ms_to_minutes(ms) == Rat(ms.num, ms.den * 60000)

Pvt_mean(data) ==
    IF Len(data) = 0 THEN F64(0) ELSE RatDiv(RatSum(data), F64(Len(data)))

Pvt_std_dev(data, mean) ==
    LET square(diff) == RatMul(diff, diff)
        variance == RatDiv(RatSum([k \in 1..Len(data) |-> square(RatSub(data[k], mean))]),
                           F64(Len(data) - 1))
    IN IF Len(data) < 2 THEN F64(0) ELSE Sqrt(variance)

\* Faulty variant: the rank is taken over n instead of n - 1.
Pvt_percentile_rank_over_len(sorted, pct) ==
    LET last == Len(sorted) - 1
        between(rank, lower, upper) ==
            IF lower = upper THEN sorted[lower + 1]
            ELSE RatAdd(sorted[lower + 1],
                        RatMul(RatSub(sorted[upper + 1], sorted[lower + 1]),
                               RatSub(rank, F64(lower))))
        at(rank) == between(rank, IF RatFloor(rank) > last THEN last ELSE RatFloor(rank),
                                  IF RatCeil(rank) > last THEN last ELSE RatCeil(rank))
    IN IF Len(sorted) = 0 THEN F64(0)
       ELSE IF Len(sorted) = 1 THEN sorted[1]
       ELSE at(RatMul(RatClamp(pct, F64(0), F64(1)), F64(Len(sorted))))

\* Faulty variant: a single value has no percentile.
Pvt_percentile_zero_for_one(sorted, pct) ==
    LET between(rank, lower, upper) ==
            IF lower = upper THEN sorted[lower + 1]
            ELSE RatAdd(sorted[lower + 1],
                        RatMul(RatSub(sorted[upper + 1], sorted[lower + 1]),
                               RatSub(rank, F64(lower))))
        at(rank) == between(rank, RatFloor(rank), RatCeil(rank))
    IN IF Len(sorted) = 0 THEN F64(0)
       ELSE IF Len(sorted) = 1 THEN F64(0)
       ELSE at(RatMul(RatClamp(pct, F64(0), F64(1)), F64(Len(sorted) - 1)))

\* between(rank, lower, upper) is the weighted value for a rank with its
\* floor and ceiling; at(rank) takes them.
Pvt_percentile(sorted, pct) ==
    LET between(rank, lower, upper) ==
            IF lower = upper THEN sorted[lower + 1]
            ELSE RatAdd(sorted[lower + 1],
                        RatMul(RatSub(sorted[upper + 1], sorted[lower + 1]),
                               RatSub(rank, F64(lower))))
        at(rank) == between(rank, RatFloor(rank), RatCeil(rank))
    IN IF Len(sorted) = 0 THEN F64(0)
       ELSE IF Len(sorted) = 1 THEN sorted[1]
       ELSE at(RatMul(RatClamp(pct, F64(0), F64(1)), F64(Len(sorted) - 1)))

\* f64::EPSILON is below every non-zero denominator the model can form, so
\* the test `denominator.abs() < f64::EPSILON` is the test for zero.
Pvt_slope_minutes(xs_minutes, ys_ms) ==
    LET ks == 1..Len(xs_minutes)
        quotient(numerator, denominator) ==
            IF denominator.num = 0 THEN F64(0) ELSE RatDiv(numerator, denominator)
        fit(n, sum_x, sum_y, sum_xy, sum_x2) ==
            quotient(RatSub(RatMul(n, sum_xy), RatMul(sum_x, sum_y)),
                     RatSub(RatMul(n, sum_x2), RatMul(sum_x, sum_x)))
    IN IF Len(xs_minutes) < 2 \/ Len(ys_ms) < 2 \/ Len(xs_minutes) # Len(ys_ms)
       THEN F64(0)
       ELSE fit(F64(Len(xs_minutes)), RatSum(xs_minutes), RatSum(ys_ms),
                RatSum([k \in ks |-> RatMul(xs_minutes[k], ys_ms[k])]),
                RatSum([k \in ks |-> RatMul(xs_minutes[k], xs_minutes[k])]))

PvtMetrics_default ==
    [total_trials |-> 0, reacted_trials |-> 0,
     median_rt_ms |-> F64(0), mean_rt_ms |-> F64(0), sd_rt_ms |-> F64(0),
     p10_rt_ms |-> F64(0), p90_rt_ms |-> F64(0),
     lapses_ge_500ms |-> 0, minor_lapses_355_499ms |-> 0, false_starts |-> 0,
     time_on_task_slope_ms_per_min |-> F64(0),
     meets_min_trial_requirement |-> FALSE]

\* Faulty variant: a run without a reaction still reports its lapses.
PvtMetrics_from_trials_lapses_without_reaction(trials, false_starts, min_required) ==
    LET IsReaction(t) == t.outcome.tag = "Reaction"
        IsLapseGe500(t) == \/ t.outcome.tag = "Lapse"
                           \/ (t.outcome.tag = "Reaction" /\ t.outcome.rt_ms >= 500)
        IsMinorLapse(t) == /\ t.outcome.tag = "Reaction"
                           /\ t.outcome.rt_ms >= 355
                           /\ t.outcome.rt_ms < 500
        total_trials ==
            Cardinality({k \in 1..Len(trials) : PvtTrial_is_completed(trials[k])})
        lapses_ge_500ms == Cardinality({k \in 1..Len(trials) : IsLapseGe500(trials[k])})
        offset_minutes(t) == IF t.onset_since_start_ms.some
                             THEN ms_to_minutes(F64(t.onset_since_start_ms.value))
                             ELSE F64(0)
        statistics(reaction_times, reaction_offsets, sorted_times, mean) ==
            [total_trials |-> total_trials,
             reacted_trials |-> Len(reaction_times),
             median_rt_ms |-> Pvt_percentile(sorted_times, [num |-> 1, den |-> 2]),
             mean_rt_ms |-> mean,
             sd_rt_ms |-> Pvt_std_dev(reaction_times, mean),
             p10_rt_ms |-> Pvt_percentile(sorted_times, [num |-> 1, den |-> 10]),
             p90_rt_ms |-> Pvt_percentile(sorted_times, [num |-> 9, den |-> 10]),
             lapses_ge_500ms |-> lapses_ge_500ms,
             minor_lapses_355_499ms |->
                 Cardinality({k \in 1..Len(trials) : IsMinorLapse(trials[k])}),
             false_starts |-> false_starts,
             time_on_task_slope_ms_per_min |->
                 Pvt_slope_minutes(reaction_offsets, reaction_times),
             meets_min_trial_requirement |-> Len(reaction_times) >= min_required]
        collected(reacted, reaction_times) ==
            IF Len(reaction_times) = 0
            THEN [PvtMetrics_default EXCEPT !.total_trials = total_trials,
                                            !.lapses_ge_500ms = lapses_ge_500ms,
                                            !.false_starts = false_starts,
                                            !.meets_min_trial_requirement = FALSE]
            ELSE statistics(reaction_times,
                            [k \in 1..Len(reacted) |-> offset_minutes(reacted[k])],
                            SortAscending(reaction_times), Pvt_mean(reaction_times))
        with(reacted) ==
            collected(reacted, [k \in 1..Len(reacted) |-> F64(reacted[k].outcome.rt_ms)])
    IN with(SelectSeq(trials, IsReaction))

\* statistics(...) is the part of from_trials after the early return.
PvtMetrics_from_trials(trials, false_starts, min_required) ==
    LET IsReaction(t) == t.outcome.tag = "Reaction"
        IsLapseGe500(t) == \/ t.outcome.tag = "Lapse"
                           \/ (t.outcome.tag = "Reaction" /\ t.outcome.rt_ms >= 500)
        IsMinorLapse(t) == /\ t.outcome.tag = "Reaction"
                           /\ t.outcome.rt_ms >= 355
                           /\ t.outcome.rt_ms < 500
        total_trials ==
            Cardinality({k \in 1..Len(trials) : PvtTrial_is_completed(trials[k])})
        offset_minutes(t) == IF t.onset_since_start_ms.some
                             THEN ms_to_minutes(F64(t.onset_since_start_ms.value))
                             ELSE F64(0)
        statistics(reaction_times, reaction_offsets, sorted_times, mean) ==
            [total_trials |-> total_trials,
             reacted_trials |-> Len(reaction_times),
             median_rt_ms |-> Pvt_percentile(sorted_times, [num |-> 1, den |-> 2]),
             mean_rt_ms |-> mean,
             sd_rt_ms |-> Pvt_std_dev(reaction_times, mean),
             p10_rt_ms |-> Pvt_percentile(sorted_times, [num |-> 1, den |-> 10]),
             p90_rt_ms |-> Pvt_percentile(sorted_times, [num |-> 9, den |-> 10]),
             lapses_ge_500ms |->
                 Cardinality({k \in 1..Len(trials) : IsLapseGe500(trials[k])}),
             minor_lapses_355_499ms |->
                 Cardinality({k \in 1..Len(trials) : IsMinorLapse(trials[k])}),
             false_starts |-> false_starts,
             time_on_task_slope_ms_per_min |->
                 Pvt_slope_minutes(reaction_offsets, reaction_times),
             meets_min_trial_requirement |-> Len(reaction_times) >= min_required]
        collected(reacted, reaction_times) ==
            IF Len(reaction_times) = 0
            THEN [PvtMetrics_default EXCEPT !.total_trials = total_trials,
                                            !.false_starts = false_starts,
                                            !.meets_min_trial_requirement = FALSE]
            ELSE statistics(reaction_times,
                            [k \in 1..Len(reacted) |-> offset_minutes(reacted[k])],
                            SortAscending(reaction_times), Pvt_mean(reaction_times))
        with(reacted) ==
            collected(reacted, [k \in 1..Len(reacted) |-> F64(reacted[k].outcome.rt_ms)])
    IN with(SelectSeq(trials, IsReaction))

\* Faulty variant: a finished run keeps its metrics after an abort.
PvtEngine_metrics_after_abort(eng) ==
    IF eng.state # PvtCompleted /\ eng.state # PvtAborted
    THEN None
    ELSE Some(PvtMetrics_from_trials(eng.trials, eng.total_false_starts,
                                     eng.config.min_reaction_trials))

PvtEngine_metrics(eng) ==
    IF eng.state # PvtCompleted
    THEN None
    ELSE Some(PvtMetrics_from_trials(eng.trials, eng.total_false_starts,
                                     eng.config.min_reaction_trials))

(***************************************************************************)
(* serde_json: the Value a metrics record is serialised to by to_value     *)
(* (derive(Serialize)) and read back from by from_value                    *)
(* (derive(Deserialize)).  A count is an unsigned Number, an f64 a float   *)
(* Number, or Null when it is not finite; reading a count accepts only an  *)
(* unsigned Number, reading an f64 any Number, and a field that cannot be  *)
(* read fails the whole record.                                            *)
(***************************************************************************)
JsonNull == [json |-> "null"]
JsonBool(b) == [json |-> "bool", value |-> b]
JsonObject(fields) == [json |-> "object", fields |-> fields]

\* Faulty variant: a count is written as a floating-point Number.
Json_from_unsigned_as_float(n) == [json |-> "number", n |-> "Float", value |-> F64(n)]

\* Serializer::serialize_u64 (usize, u32): Number::PosInt
Json_from_unsigned(n) == [json |-> "number", n |-> "PosInt", value |-> n]

\* Serializer::serialize_f64: Number::from_f64, Null for NaN and infinities
Json_from_f64(x) ==
    IF IsFinite(x) THEN [json |-> "number", n |-> "Float", value |-> x] ELSE JsonNull

\* Deserializer::deserialize_u64 and the like
Json_as_unsigned(v) ==
    IF v.json = "number" /\ v.n = "PosInt" THEN Some(v.value) ELSE None

\* Deserializer::deserialize_f64
Json_as_f64(v) ==
    IF v.json # "number" THEN None
    ELSE IF v.n = "PosInt" THEN Some(F64(v.value))
    ELSE Some(v.value)

\* Deserializer::deserialize_bool
Json_as_bool(v) == IF v.json = "bool" THEN Some(v.value) ELSE None

\* Every field was read.
Json_all_read(read) == \A name \in DOMAIN read : read[name].some

\* serde_json::to_value(&metrics) for PvtMetrics
PvtMetrics_to_value(m) ==
    JsonObject([total_trials |-> Json_from_unsigned(m.total_trials),
                reacted_trials |-> Json_from_unsigned(m.reacted_trials),
                median_rt_ms |-> Json_from_f64(m.median_rt_ms),
                mean_rt_ms |-> Json_from_f64(m.mean_rt_ms),
                sd_rt_ms |-> Json_from_f64(m.sd_rt_ms),
                p10_rt_ms |-> Json_from_f64(m.p10_rt_ms),
                p90_rt_ms |-> Json_from_f64(m.p90_rt_ms),
                lapses_ge_500ms |-> Json_from_unsigned(m.lapses_ge_500ms),
                minor_lapses_355_499ms |-> Json_from_unsigned(m.minor_lapses_355_499ms),
                false_starts |-> Json_from_unsigned(m.false_starts),
                time_on_task_slope_ms_per_min |-> Json_from_f64(m.time_on_task_slope_ms_per_min),
                meets_min_trial_requirement |-> JsonBool(m.meets_min_trial_requirement)])

\* results::utils::parse_pvt_metrics: serde_json::from_value(..).ok()
parse_pvt_metrics(record) ==
    LET built(read) ==
            IF Json_all_read(read) THEN Some([name \in DOMAIN read |-> read[name].value])
            ELSE None
        from_object(f) ==
            built([total_trials |-> Json_as_unsigned(f.total_trials),
                   reacted_trials |-> Json_as_unsigned(f.reacted_trials),
                   median_rt_ms |-> Json_as_f64(f.median_rt_ms),
                   mean_rt_ms |-> Json_as_f64(f.mean_rt_ms),
                   sd_rt_ms |-> Json_as_f64(f.sd_rt_ms),
                   p10_rt_ms |-> Json_as_f64(f.p10_rt_ms),
                   p90_rt_ms |-> Json_as_f64(f.p90_rt_ms),
                   lapses_ge_500ms |-> Json_as_unsigned(f.lapses_ge_500ms),
                   minor_lapses_355_499ms |-> Json_as_unsigned(f.minor_lapses_355_499ms),
                   false_starts |-> Json_as_unsigned(f.false_starts),
                   time_on_task_slope_ms_per_min |->
                       Json_as_f64(f.time_on_task_slope_ms_per_min),
                   meets_min_trial_requirement |-> Json_as_bool(f.meets_min_trial_requirement)])
    IN IF record.metrics.json = "object"
          /\ DOMAIN PvtMetrics_default \subseteq DOMAIN record.metrics.fields
       THEN from_object(record.metrics.fields)
       ELSE None

(***************************************************************************)
(* core::storage and core::qc                                              *)
(***************************************************************************)
QualityFlags_pristine == [min_trials_met |-> TRUE]

SummaryRecord_new(task, metrics, qc) == [task |-> task, metrics |-> metrics, qc |-> qc]

\* `ok` is whether the write succeeds; a failed write leaves the store as it was.
append_summary(store, record, ok) ==
    IF ok THEN [store |-> Append(store, record), err |-> None]
          ELSE [store |-> store, err |-> Some("WriteFailed")]

(***************************************************************************)
(* tasks::pvt::view: the coroutine and its helpers                         *)
(***************************************************************************)
PvtSignals_new == [last_metrics |-> None, last_error |-> None, qc_flags |-> QualityFlags_pristine]

Pvt_queue_stimulus(schedule, clock) ==
    [kind |-> "StimulusReady", run_id |-> schedule.run_id,
     trial_index |-> schedule.trial_index, due |-> clock + schedule.wait_ms]

Pvt_queue_timeout(run_id, trial_index, timeout_ms, clock) ==
    [kind |-> "Timeout", run_id |-> run_id,
     trial_index |-> trial_index, due |-> clock + timeout_ms]

\* Faulty variant: a run that misses the minimum of reaction trials is not
\* persisted.
Pvt_finalize_run_skips_short_runs(eng, signals, store, ok) ==
    LET m == PvtEngine_metrics(eng) IN
    IF ~m.some
    THEN [signals |-> signals, store |-> store, append |-> None]
    ELSE IF ~m.value.meets_min_trial_requirement
    THEN [signals |-> [signals EXCEPT !.last_metrics = m],
          store |-> store, append |-> None]
    ELSE LET qc == [signals.qc_flags EXCEPT
                      !.min_trials_met = m.value.meets_min_trial_requirement]
             w == append_summary(store, SummaryRecord_new("pvt", PvtMetrics_to_value(m.value), qc), ok)
         IN [signals |-> [last_metrics |-> m,
                          last_error |-> IF w.err.some
                                         THEN Some("Failed to persist summary") ELSE None,
                          qc_flags |-> qc],
             store |-> w.store,
             append |-> Some(~w.err.some)]

\* Faulty variant: a failed write also withholds the metrics.
Pvt_finalize_run_drops_metrics_on_failure(eng, signals, store, ok) ==
    LET m == PvtEngine_metrics(eng) IN
    IF ~m.some
    THEN [signals |-> signals, store |-> store, append |-> None]
    ELSE LET qc == [signals.qc_flags EXCEPT
                      !.min_trials_met = m.value.meets_min_trial_requirement]
             w == append_summary(store, SummaryRecord_new("pvt", PvtMetrics_to_value(m.value), qc), ok)
         IN [signals |-> [last_metrics |-> IF w.err.some THEN None ELSE m,
                          last_error |-> IF w.err.some
                                         THEN Some("Failed to persist summary") ELSE None,
                          qc_flags |-> qc],
             store |-> w.store,
             append |-> Some(~w.err.some)]

\* with_metrics(m) is the body of finalize_run once engine.metrics() is read.
Pvt_finalize_run(eng, signals, store, ok) ==
    LET with_metrics(m) ==
            IF ~m.some
            THEN [signals |-> signals, store |-> store, append |-> None]
            ELSE LET qc == [signals.qc_flags EXCEPT
                              !.min_trials_met = m.value.meets_min_trial_requirement]
                     w == append_summary(store, SummaryRecord_new("pvt", PvtMetrics_to_value(m.value), qc), ok)
                 IN [signals |-> [last_metrics |-> m,
                                  last_error |-> IF w.err.some
                                                 THEN Some("Failed to persist summary")
                                                 ELSE None,
                                  qc_flags |-> qc],
                     store |-> w.store,
                     append |-> Some(~w.err.some)]
    IN with_metrics(PvtEngine_metrics(eng))

\* What the Respond and Timeout handlers do with the engine's outcome;
\* lastEvent.append records whether append_summary was called and succeeded.
Pvt_handle_outcome(r, timers, ok, event) ==
    /\ PvtWithinDepth(r.eng)
    /\ pvtEngine' = r.eng
    /\ IF r.ret.tag = "NextScheduled"
       THEN /\ pvtTimers' = timers \cup {Pvt_queue_stimulus(r.ret.schedule, now)}
            /\ lastEvent' = [event |-> event, ret |-> r.ret, append |-> None]
            /\ UNCHANGED <<pvtSignals, summaries>>
       ELSE IF r.ret.tag = "RunCompleted"
       THEN LET finalized(f) ==
                    /\ pvtSignals' = f.signals
                    /\ summaries' = f.store
                    /\ pvtTimers' = timers
                    /\ lastEvent' = [event |-> event, ret |-> r.ret, append |-> f.append]
            IN finalized(Pvt_finalize_run(r.eng, pvtSignals, summaries, ok))
       ELSE /\ pvtTimers' = timers
            /\ lastEvent' = [event |-> event, ret |-> r.ret, append |-> None]
            /\ UNCHANGED <<pvtSignals, summaries>>

\* Faulty variant: the handler forgets to compare run ids.
PvtView_mark_stimulus_on_any_run(eng, run_id, trial_index, clock) ==
    PvtEngine_mark_stimulus_on(eng, trial_index, clock)

\* The StimulusReady handler's use of the engine: an event of another run
\* never reaches mark_stimulus_on.
PvtView_mark_stimulus_on(eng, run_id, trial_index, clock) ==
    IF eng.run_id # run_id
    THEN [eng |-> eng, ret |-> FALSE]
    ELSE PvtEngine_mark_stimulus_on(eng, trial_index, clock)

\* The Timeout handler's use of the engine.
PvtView_register_timeout(eng, run_id, trial_index, clock, iti) ==
    IF eng.run_id # run_id
    THEN [eng |-> eng, ret |-> Ignored]
    ELSE PvtEngine_register_timeout(eng, trial_index, clock, iti)

PvtEvent_Start ==
    /\ view = "pvt"
    /\ \E iti \in PvtEngine_random_iti(pvtEngine) :
         LET r == PvtEngine_start(pvtEngine, now, iti) IN
         /\ PvtWithinDepth(r.eng)
         /\ pvtEngine' = r.eng
         /\ pvtSignals' = [pvtSignals EXCEPT !.last_error = None,
                                             !.last_metrics = None,
                                             !.qc_flags = QualityFlags_pristine]
         /\ pvtTimers' = IF r.ret.some
                         THEN pvtTimers \cup {Pvt_queue_stimulus(r.ret.value, now)}
                         ELSE pvtTimers
         /\ lastEvent' = [event |-> [kind |-> "Start"], ret |-> r.ret, append |-> None]
    /\ UNCHANGED <<view, now, summaries, nbackVars>>

PvtEvent_Abort ==
    /\ view = "pvt"
    /\ pvtEngine' = PvtEngine_abort(pvtEngine, now)
    /\ lastEvent' = [event |-> [kind |-> "Abort"], ret |-> None, append |-> None]
    /\ UNCHANGED <<view, now, pvtSignals, pvtTimers, summaries, nbackVars>>

PvtEvent_StimulusReady ==
    /\ view = "pvt"
    /\ \E t \in pvtTimers :
         /\ t.kind = "StimulusReady"
         /\ now >= t.due
         /\ LET r == PvtView_mark_stimulus_on(pvtEngine, t.run_id, t.trial_index, now)
            IN /\ pvtEngine' = r.eng
               /\ pvtTimers' =
                    (pvtTimers \ {t}) \cup
                    (IF r.ret
                     THEN {Pvt_queue_timeout(t.run_id, t.trial_index,
                                             r.eng.config.max_response_ms, now)}
                     ELSE {})
               /\ lastEvent' = [event |-> [kind |-> "StimulusReady", run_id |-> t.run_id,
                                           trial_index |-> t.trial_index],
                                ret |-> Flag(r.ret), append |-> None]
    /\ UNCHANGED <<view, now, pvtSignals, summaries, nbackVars>>

PvtEvent_Respond ==
    /\ view = "pvt"
    /\ \E iti \in PvtEngine_random_iti(pvtEngine), ok \in BOOLEAN :
         LET r == PvtEngine_register_response(pvtEngine, now, now, iti) IN
         Pvt_handle_outcome(r, pvtTimers, ok, [kind |-> "Respond"])
    /\ UNCHANGED <<view, now, nbackVars>>

PvtEvent_Timeout ==
    /\ view = "pvt"
    /\ \E t \in pvtTimers, iti \in PvtEngine_random_iti(pvtEngine), ok \in BOOLEAN :
         /\ t.kind = "Timeout"
         /\ now >= t.due
         /\ LET r == PvtView_register_timeout(pvtEngine, t.run_id, t.trial_index, now, iti)
            IN Pvt_handle_outcome(r, pvtTimers \ {t}, ok,
                                  [kind |-> "Timeout", run_id |-> t.run_id,
                                   trial_index |-> t.trial_index])
    /\ UNCHANGED <<view, now, nbackVars>>

(***************************************************************************)
(* tasks::nback::engine                                                    *)
(***************************************************************************)
LETTER_POOL ==
    << "B", "C", "D", "F", "G", "H", "J", "K", "M", "P",
       "Q", "R", "S", "T", "V", "W", "X", "Y", "Z" >>

\* The letters the generator draws from in this model: the engine only
\* compares letters for equality, and two letters realise every pattern of
\* target and non-target trials.
LetterPool == { LETTER_POOL[1], LETTER_POOL[2] }

Hit(rt_ms) == [tag |-> "Hit", rt_ms |-> rt_ms]
Miss == [tag |-> "Miss"]
FalseAlarm(rt_ms) == [tag |-> "FalseAlarm", rt_ms |-> rt_ms]
CorrectRejection == [tag |-> "CorrectRejection"]

NBackIdle == [tag |-> "Idle"]
NBackWaiting(mode, trial_index) ==
    [tag |-> "Waiting", mode |-> mode, trial_index |-> trial_index]
NBackStimulusActive(mode, trial_index) ==
    [tag |-> "StimulusActive", mode |-> mode, trial_index |-> trial_index]
NBackCompleted(mode) == [tag |-> "Completed", mode |-> mode]
NBackAborted == [tag |-> "Aborted"]

Recorded(kind) == [tag |-> "Recorded", kind |-> kind]
AdvanceNext(schedule) == [tag |-> "Next", schedule |-> schedule]
AdvanceCompleted(mode) == [tag |-> "Completed", mode |-> mode]

\* target_ratio is the fraction num / den.
NBackConfig(total_trials, practice_trials, target_ratio, stimulus_ms, interstimulus_interval_ms, lead_in_ms, response_window_ms) ==
    [total_trials |-> total_trials,
     practice_trials |-> practice_trials,
     target_ratio |-> target_ratio,
     stimulus_ms |-> stimulus_ms,
     interstimulus_interval_ms |-> interstimulus_interval_ms,
     lead_in_ms |-> lead_in_ms,
     response_window_ms |-> response_window_ms]

\* The longest 2-back run explored; the shortest with a target trial is 3.
NBackMaxLength == MaxDepth

\* The configurations explored: the two run lengths add up to the longest
\* run (longest main run, longest practice run, and a practice run of one
\* trial beside a main run one trial shorter than the longest); half of the
\* candidate trials are targets; the letter is shown for one clock step and
\* the next follows at once, with no wait before the first.  One more
\* configuration, with runs of a single trial, waits one clock step before
\* its first letter.  The response window the engine is built with differs
\* from the one the view installs.
NBackConfigs ==
    { NBackConfig(NBackMaxLength - p, p, [num |-> 1, den |-> 2],
                  ClockStepMs, 0, 0, 3 * ClockStepMs) :
        p \in {0, 1, NBackMaxLength} }
    \cup { NBackConfig(1, 1, [num |-> 1, den |-> 2],
                       ClockStepMs, 0, ClockStepMs, 3 * ClockStepMs) }

\* The configurations a scripted caller of the engine explores: every run
\* length up to one trial more than above, beside a practice run of the
\* shortest length with a target trial, and the target ratios 0, 1/2 and 1.
NBackApiMaxLength == NBackMaxLength + 1

NBackApiRatios == { [num |-> 0, den |-> 1], [num |-> 1, den |-> 2], [num |-> 1, den |-> 1] }

NBackApiConfigs ==
    { NBackConfig(total_trials, 3, target_ratio, ClockStepMs, 0, 0, 3 * ClockStepMs) :
        total_trials \in 0..NBackApiMaxLength, target_ratio \in NBackApiRatios }

\* NBackConfig::default() with every duration divided by ten (the letter
\* 50 ms, the interval 250 ms, the lead-in 75 ms, the response window
\* 300 ms) and runs of three and two trials; and the same with a main run
\* of no trials.
NBackTimedConfigs ==
    { NBackConfig(total_trials, 2, [num |-> 3, den |-> 10], 50, 250, 75, 300) :
        total_trials \in {0, 3} }

NBackTrial_new(index, letter, is_target, is_lure) ==
    [index |-> index,
     letter |-> letter,
     is_target |-> is_target,
     is_lure |-> is_lure,
     presented_at |-> None,
     response |-> None,
     outcome |-> Pending]

NBackTrial_is_completed(trial) == trial.outcome # Pending

NBackEngine_new(config) ==
    [config |-> config,
     state |-> NBackIdle,
     run_id |-> 0,
     trials |-> << >>,
     last_practice_metrics |-> None,
     last_main_metrics |-> None]

\* f32::round of n * num / den for n, num >= 0: halves round away from zero.
RoundRatio(n, ratio) == (2 * n * ratio.num + ratio.den) \div (2 * ratio.den)

NBack_target_quota(length, target_ratio) ==
    LET max_targets == IF length > 2 THEN length - 2 ELSE 0
        raw == RoundRatio(max_targets, target_ratio)
        at_least_one == IF raw <= 0 THEN 1 ELSE raw
    IN IF max_targets = 0 THEN 0
       ELSE IF at_least_one > max_targets THEN max_targets ELSE at_least_one

\* The letter sequences the generator can produce: the first two letters are
\* any letters of the pool; a chosen target index repeats the letter two
\* back and every other index gets a letter different from it.
NBack_letter_sequences(length, target_ratio) ==
    LET quota == NBack_target_quota(length, target_ratio)
        candidates == { idx \in 0..(length - 1) : idx >= 2 }
    IN { letters \in [1..length -> LetterPool] :
           \E chosen_targets \in SUBSET candidates :
              /\ Cardinality(chosen_targets) = quota
              /\ \A idx \in candidates :
                   IF idx \in chosen_targets
                   THEN letters[idx + 1] = letters[idx - 1]
                   ELSE letters[idx + 1] # letters[idx - 1] }

\* The same sets, computed once for the lengths and ratios explored.
NBack_letter_sequences_table ==
    [length \in 0..NBackApiMaxLength,
     target_ratio \in { c.target_ratio :
                         c \in NBackConfigs \cup NBackApiConfigs \cup NBackTimedConfigs } |->
        NBack_letter_sequences(length, target_ratio)]

\* Faulty variant: a target is a repeat of the letter one back.
NBack_trials_of_one_back(letters) ==
    [k \in 1..Len(letters) |->
        LET idx == k - 1 IN
        NBackTrial_new(idx, letters[k],
                       idx >= 1 /\ letters[k] = letters[k - 1],
                       idx >= 1 /\ letters[k] = letters[k - 1])]

NBack_trials_of(letters) ==
    [k \in 1..Len(letters) |->
        LET idx == k - 1 IN
        NBackTrial_new(idx, letters[k],
                       idx >= 2 /\ letters[k] = letters[k - 2],
                       idx >= 1 /\ letters[k] = letters[k - 1])]

\* The trial lists generate_trials(mode) can return (the seeded generator's
\* draws are left open).
NBackEngine_generate_trials(eng, mode) ==
    LET length == IF mode = "Practice" THEN eng.config.practice_trials
                                       ELSE eng.config.total_trials
    IN IF length = 0 THEN { << >> }
       ELSE { NBack_trials_of(letters) :
                letters \in NBack_letter_sequences_table[length, eng.config.target_ratio] }

\* Faulty variant: the first trial waits the inter-stimulus interval.
NBackEngine_schedule_current_without_lead_in(eng, trial_index) ==
    [stimulus |-> [run_id |-> eng.run_id,
                   trial_index |-> trial_index,
                   wait_ms |-> eng.config.interstimulus_interval_ms],
     advance |-> [run_id |-> eng.run_id,
                  trial_index |-> trial_index,
                  wait_ms |-> eng.config.response_window_ms]]

NBackEngine_schedule_current(eng, trial_index) ==
    [stimulus |-> [run_id |-> eng.run_id,
                   trial_index |-> trial_index,
                   wait_ms |-> IF trial_index = 0 THEN eng.config.lead_in_ms
                               ELSE eng.config.interstimulus_interval_ms],
     advance |-> [run_id |-> eng.run_id,
                  trial_index |-> trial_index,
                  wait_ms |-> eng.config.response_window_ms]]

\* Faulty variant: the new run keeps the number of the run before it.
NBackEngine_start_keeps_run_id(eng, mode, generated) ==
    IF eng.state.tag \in {"Waiting", "StimulusActive"}
    THEN [eng |-> eng, ret |-> None]
    ELSE LET started == [eng EXCEPT !.trials = generated,
                                    !.state = NBackWaiting(mode, 0)]
         IN [eng |-> started, ret |-> Some(NBackEngine_schedule_current(started, 0))]

\* `generated` is the list generate_trials(mode) returns for the new run_id.
NBackEngine_start(eng, mode, generated) ==
    IF eng.state.tag \in {"Waiting", "StimulusActive"}
    THEN [eng |-> eng, ret |-> None]
    ELSE LET started == [eng EXCEPT !.run_id = @ + 1,
                                    !.trials = generated,
                                    !.state = NBackWaiting(mode, 0)]
         IN [eng |-> started, ret |-> Some(NBackEngine_schedule_current(started, 0))]

NBackEngine_abort(eng) == [eng EXCEPT !.state = NBackAborted]

NBackEngine_mark_stimulus_on(eng, trial_index, timestamp) ==
    IF eng.state.tag = "Waiting" /\ eng.state.trial_index = trial_index
    THEN IF trial_index < Len(eng.trials)
         THEN [eng |-> [eng EXCEPT
                          !.trials[trial_index + 1].presented_at = Some(timestamp),
                          !.state = NBackStimulusActive(eng.state.mode, trial_index)],
               ret |-> TRUE]
         ELSE [eng |-> eng, ret |-> FALSE]
    ELSE [eng |-> eng, ret |-> FALSE]

\* Faulty variant: a trial that already has a response is scored again.
NBackEngine_register_response_again(eng, timestamp) ==
    IF eng.state.tag = "StimulusActive"
    THEN LET trial_index == eng.state.trial_index IN
         IF trial_index < Len(eng.trials)
         THEN LET trial == eng.trials[trial_index + 1] IN
              IF ~trial.presented_at.some
              THEN [eng |-> eng, ret |-> Ignored]
              ELSE LET rt_ms == duration_ms(trial.presented_at.value, timestamp)
                       response == Some([timestamp |-> timestamp, rt_ms |-> rt_ms])
                   IN IF trial.is_target
                      THEN [eng |-> [eng EXCEPT
                                       !.trials[trial_index + 1].response = response,
                                       !.trials[trial_index + 1].outcome = Hit(rt_ms)],
                            ret |-> Recorded("Hit")]
                      ELSE [eng |-> [eng EXCEPT
                                       !.trials[trial_index + 1].response = response,
                                       !.trials[trial_index + 1].outcome = FalseAlarm(rt_ms)],
                            ret |-> Recorded("FalseAlarm")]
         ELSE [eng |-> eng, ret |-> Ignored]
    ELSE [eng |-> eng, ret |-> Ignored]

\* Faulty variant: every response is scored a Hit.
NBackEngine_register_response_always_hit(eng, timestamp) ==
    IF eng.state.tag = "StimulusActive"
    THEN LET trial_index == eng.state.trial_index IN
         IF trial_index < Len(eng.trials)
         THEN LET trial == eng.trials[trial_index + 1] IN
              IF trial.response.some \/ ~trial.presented_at.some
              THEN [eng |-> eng, ret |-> Ignored]
              ELSE LET rt_ms == duration_ms(trial.presented_at.value, timestamp)
                       response == Some([timestamp |-> timestamp, rt_ms |-> rt_ms])
                   IN [eng |-> [eng EXCEPT
                                  !.trials[trial_index + 1].response = response,
                                  !.trials[trial_index + 1].outcome = Hit(rt_ms)],
                       ret |-> Recorded("Hit")]
         ELSE [eng |-> eng, ret |-> Ignored]
    ELSE [eng |-> eng, ret |-> Ignored]

\* Faulty variant: a recorded response ends the trial and the engine waits
\* for the next one.
NBackEngine_register_response_ends_trial(eng, timestamp) ==
    IF eng.state.tag = "StimulusActive"
    THEN LET trial_index == eng.state.trial_index IN
         IF trial_index < Len(eng.trials)
         THEN LET trial == eng.trials[trial_index + 1] IN
              IF trial.response.some \/ ~trial.presented_at.some
              THEN [eng |-> eng, ret |-> Ignored]
              ELSE LET rt_ms == duration_ms(trial.presented_at.value, timestamp)
                       response == Some([timestamp |-> timestamp, rt_ms |-> rt_ms])
                       waiting == NBackWaiting(eng.state.mode, trial_index + 1)
                   IN IF trial.is_target
                      THEN [eng |-> [eng EXCEPT
                                       !.trials[trial_index + 1].response = response,
                                       !.trials[trial_index + 1].outcome = Hit(rt_ms),
                                       !.state = waiting],
                            ret |-> Recorded("Hit")]
                      ELSE [eng |-> [eng EXCEPT
                                       !.trials[trial_index + 1].response = response,
                                       !.trials[trial_index + 1].outcome = FalseAlarm(rt_ms),
                                       !.state = waiting],
                            ret |-> Recorded("FalseAlarm")]
         ELSE [eng |-> eng, ret |-> Ignored]
    ELSE [eng |-> eng, ret |-> Ignored]

NBackEngine_register_response(eng, timestamp) ==
    IF eng.state.tag = "StimulusActive"
    THEN LET trial_index == eng.state.trial_index IN
         IF trial_index < Len(eng.trials)
         THEN LET trial == eng.trials[trial_index + 1] IN
              IF trial.response.some \/ ~trial.presented_at.some
              THEN [eng |-> eng, ret |-> Ignored]
              ELSE LET rt_ms == duration_ms(trial.presented_at.value, timestamp)
                       response == Some([timestamp |-> timestamp, rt_ms |-> rt_ms])
                   IN IF trial.is_target
                      THEN [eng |-> [eng EXCEPT
                                       !.trials[trial_index + 1].response = response,
                                       !.trials[trial_index + 1].outcome = Hit(rt_ms)],
                            ret |-> Recorded("Hit")]
                      ELSE [eng |-> [eng EXCEPT
                                       !.trials[trial_index + 1].response = response,
                                       !.trials[trial_index + 1].outcome = FalseAlarm(rt_ms)],
                            ret |-> Recorded("FalseAlarm")]
         ELSE [eng |-> eng, ret |-> Ignored]
    ELSE [eng |-> eng, ret |-> Ignored]

(***************************************************************************)
(* tasks::nback::metrics                                                   *)
(*                                                                         *)
(* inverse_normal_cdf takes logarithms and square roots and is not         *)
(* evaluated: its value is infinite at p <= 0 and p >= 1 and otherwise the *)
(* (finite) quotient of the region p lies in, named by region and p.  Sums *)
(* and differences of such values follow the IEEE rules for infinities.    *)
(***************************************************************************)
NEG_INFINITY == [tag |-> "NegInfinity"]
INFINITY == [tag |-> "Infinity"]
NAN == [tag |-> "NaN"]

P_LOW == [num |-> 97, den |-> 4000]   \* 0.02425
P_HIGH == [num |-> 3903, den |-> 4000] \* 1.0 - P_LOW

NBack_inverse_normal_cdf(p) ==
    IF RatLeq(p, F64(0)) THEN NEG_INFINITY
    ELSE IF RatLeq(F64(1), p) THEN INFINITY
    ELSE IF RatLess(p, P_LOW) THEN [tag |-> "Finite", region |-> "low", p |-> p]
    ELSE IF RatLess(P_HIGH, p) THEN [tag |-> "Finite", region |-> "high", p |-> p]
    ELSE [tag |-> "Finite", region |-> "central", p |-> p]

F64Negate(x) ==
    IF x.tag = "Infinity" THEN NEG_INFINITY
    ELSE IF x.tag = "NegInfinity" THEN INFINITY
    ELSE IF x.tag = "NaN" THEN NAN
    ELSE [tag |-> "Finite", negated |-> x]

F64Add(x, y) ==
    IF x.tag = "NaN" \/ y.tag = "NaN" THEN NAN
    ELSE IF x.tag = "Finite" /\ y.tag = "Finite" THEN [tag |-> "Finite", sum |-> << x, y >>]
    ELSE IF x.tag = "Finite" THEN y
    ELSE IF y.tag = "Finite" THEN x
    ELSE IF x.tag = y.tag THEN x
    ELSE NAN

F64Scale(factor, x) ==
    IF x.tag = "Finite" THEN [tag |-> "Finite", factor |-> factor, of |-> x]
    ELSE IF factor.num < 0 THEN F64Negate(x)
    ELSE x

\* Faulty variant: the rates are used as counted, without the correction.
NBack_signal_detection_indices_uncorrected(hits, false_alarms, target_trials, non_target_trials) ==
    LET hit_trials == F64(IF target_trials > 1 THEN target_trials ELSE 1)
        non_targets == F64(IF non_target_trials > 1 THEN non_target_trials ELSE 1)
        adjusted_hit_rate == RatDiv(F64(hits), hit_trials)
        adjusted_fa_rate == RatDiv(F64(false_alarms), non_targets)
        z_hit == NBack_inverse_normal_cdf(adjusted_hit_rate)
        z_fa == NBack_inverse_normal_cdf(adjusted_fa_rate)
    IN [adjusted_hit_rate |-> adjusted_hit_rate,
        adjusted_fa_rate |-> adjusted_fa_rate,
        d_prime |-> F64Add(z_hit, F64Negate(z_fa)),
        criterion |-> F64Scale(Rat(-1, 2), F64Add(z_hit, z_fa))]

\* The pair (d_prime, criterion); the two corrected rates are kept beside it.
NBack_signal_detection_indices(hits, false_alarms, target_trials, non_target_trials) ==
    LET hit_trials == F64(IF target_trials > 1 THEN target_trials ELSE 1)
        non_targets == F64(IF non_target_trials > 1 THEN non_target_trials ELSE 1)
        adjusted_hit_rate == RatDiv(RatAdd(F64(hits), Rat(1, 2)), RatAdd(hit_trials, F64(1)))
        adjusted_fa_rate ==
            RatDiv(RatAdd(F64(false_alarms), Rat(1, 2)), RatAdd(non_targets, F64(1)))
        lo == [num |-> 1, den |-> 1000000]
        hi == [num |-> 999999, den |-> 1000000]
        z_hit == NBack_inverse_normal_cdf(RatClamp(adjusted_hit_rate, lo, hi))
        z_fa == NBack_inverse_normal_cdf(RatClamp(adjusted_fa_rate, lo, hi))
    IN [adjusted_hit_rate |-> adjusted_hit_rate,
        adjusted_fa_rate |-> adjusted_fa_rate,
        d_prime |-> F64Add(z_hit, F64Negate(z_fa)),
        criterion |-> F64Scale(Rat(-1, 2), F64Add(z_hit, z_fa))]

NBack_mean(data) ==
    IF Len(data) = 0 THEN F64(0) ELSE RatDiv(RatSum(data), F64(Len(data)))

NBack_std_dev(data, mean) ==
    LET n == Len(data) IN
    IF n < 2 THEN F64(0)
    ELSE LET squares == [k \in 1..n |->
                           LET diff == RatSub(data[k], mean) IN RatMul(diff, diff)]
             variance == RatDiv(RatSum(squares), F64(n - 1))
         IN Sqrt(variance)

NBack_percentile(sorted, pct) ==
    IF Len(sorted) = 0 THEN F64(0)
    ELSE IF Len(sorted) = 1 THEN sorted[1]
    ELSE LET clamped_pct == RatClamp(pct, F64(0), F64(1))
             rank == RatMul(clamped_pct, F64(Len(sorted) - 1))
             lower == RatFloor(rank)
             upper == RatCeil(rank)
         IN IF lower = upper THEN sorted[lower + 1]
            ELSE LET weight == RatSub(rank, F64(lower))
                 IN RatAdd(sorted[lower + 1],
                           RatMul(RatSub(sorted[upper + 1], sorted[lower + 1]), weight))

NBackMetrics_default ==
    [total_trials |-> 0, target_trials |-> 0, non_target_trials |-> 0,
     hits |-> 0, misses |-> 0, false_alarms |-> 0, correct_rejections |-> 0,
     hit_rate |-> F64(0), false_alarm_rate |-> F64(0), accuracy |-> F64(0),
     d_prime |-> F64(0), criterion |-> F64(0),
     mean_hit_rt_ms |-> F64(0), median_hit_rt_ms |-> F64(0), sd_hit_rt_ms |-> F64(0),
     p10_hit_rt_ms |-> F64(0), p90_hit_rt_ms |-> F64(0),
     response_count |-> 0]

NBackMetrics_from_trials(trials) ==
    IF Len(trials) = 0 THEN NBackMetrics_default
    ELSE LET ks == 1..Len(trials)
             IsHit(t) == t.outcome.tag = "Hit"
             total_trials == Len(trials)
             target_trials == Cardinality({k \in ks : trials[k].is_target})
             non_target_trials == Cardinality({k \in ks : ~trials[k].is_target})
             hits == Cardinality({k \in ks : trials[k].outcome.tag = "Hit"})
             misses == Cardinality({k \in ks : trials[k].outcome.tag = "Miss"})
             false_alarms == Cardinality({k \in ks : trials[k].outcome.tag = "FalseAlarm"})
             correct_rejections ==
                 Cardinality({k \in ks : trials[k].outcome.tag = "CorrectRejection"})
             hit_trials == SelectSeq(trials, IsHit)
             hit_rts == SortAscending([k \in 1..Len(hit_trials) |->
                                         F64(hit_trials[k].outcome.rt_ms)])
             mean_hit_rt_ms == NBack_mean(hit_rts)
             sdi == NBack_signal_detection_indices(hits, false_alarms,
                                                   target_trials, non_target_trials)
         IN [total_trials |-> total_trials,
             target_trials |-> target_trials,
             non_target_trials |-> non_target_trials,
             hits |-> hits,
             misses |-> misses,
             false_alarms |-> false_alarms,
             correct_rejections |-> correct_rejections,
             hit_rate |-> IF target_trials > 0
                          THEN RatDiv(F64(hits), F64(target_trials)) ELSE F64(0),
             false_alarm_rate |-> IF non_target_trials > 0
                                  THEN RatDiv(F64(false_alarms), F64(non_target_trials))
                                  ELSE F64(0),
             accuracy |-> RatDiv(F64(hits + correct_rejections), F64(total_trials)),
             d_prime |-> sdi.d_prime,
             criterion |-> sdi.criterion,
             mean_hit_rt_ms |-> mean_hit_rt_ms,
             median_hit_rt_ms |-> NBack_percentile(hit_rts, Rat(1, 2)),
             sd_hit_rt_ms |-> NBack_std_dev(hit_rts, mean_hit_rt_ms),
             p10_hit_rt_ms |-> NBack_percentile(hit_rts, Rat(1, 10)),
             p90_hit_rt_ms |-> NBack_percentile(hit_rts, Rat(9, 10)),
             response_count |-> hits + false_alarms]

\* Faulty variant: the retired trial is scored as unanswered even when a
\* response already scored it.
NBackEngine_advance_overwrites_outcome(eng, trial_index) ==
    IF ~(eng.state.tag \in {"StimulusActive", "Waiting"} /\ eng.state.trial_index = trial_index)
    THEN [eng |-> eng, ret |-> Ignored]
    ELSE LET mode == eng.state.mode
             idx == eng.state.trial_index
             retired ==
                 IF idx < Len(eng.trials)
                 THEN [eng EXCEPT !.trials[idx + 1].outcome =
                                     IF eng.trials[idx + 1].is_target
                                     THEN Miss ELSE CorrectRejection]
                 ELSE eng
             next_index == idx + 1
         IN IF next_index >= Len(retired.trials)
            THEN LET metrics == NBackMetrics_from_trials(retired.trials) IN
                 [eng |-> IF mode = "Practice"
                          THEN [retired EXCEPT !.state = NBackCompleted(mode),
                                               !.last_practice_metrics = Some(metrics)]
                          ELSE [retired EXCEPT !.state = NBackCompleted(mode),
                                               !.last_main_metrics = Some(metrics)],
                  ret |-> AdvanceCompleted(mode)]
            ELSE LET waiting == [retired EXCEPT !.state = NBackWaiting(mode, next_index)] IN
                 [eng |-> waiting,
                  ret |-> AdvanceNext(NBackEngine_schedule_current(waiting, next_index))]

\* Faulty variant: a finished run stores its metrics in both slots.
NBackEngine_advance_fills_both_slots(eng, trial_index) ==
    IF ~(eng.state.tag \in {"StimulusActive", "Waiting"} /\ eng.state.trial_index = trial_index)
    THEN [eng |-> eng, ret |-> Ignored]
    ELSE LET mode == eng.state.mode
             idx == eng.state.trial_index
             retired ==
                 IF idx < Len(eng.trials) /\ eng.trials[idx + 1].outcome = Pending
                 THEN [eng EXCEPT !.trials[idx + 1].outcome =
                                     IF eng.trials[idx + 1].is_target
                                     THEN Miss ELSE CorrectRejection]
                 ELSE eng
             next_index == idx + 1
         IN IF next_index >= Len(retired.trials)
            THEN LET metrics == NBackMetrics_from_trials(retired.trials) IN
                 [eng |-> [retired EXCEPT !.state = NBackCompleted(mode),
                                          !.last_practice_metrics = Some(metrics),
                                          !.last_main_metrics = Some(metrics)],
                  ret |-> AdvanceCompleted(mode)]
            ELSE LET waiting == [retired EXCEPT !.state = NBackWaiting(mode, next_index)] IN
                 [eng |-> waiting,
                  ret |-> AdvanceNext(NBackEngine_schedule_current(waiting, next_index))]

\* Faulty variant: every unanswered trial is retired as a Miss.
NBackEngine_advance_unanswered_is_miss(eng, trial_index) ==
    IF ~(eng.state.tag \in {"StimulusActive", "Waiting"} /\ eng.state.trial_index = trial_index)
    THEN [eng |-> eng, ret |-> Ignored]
    ELSE LET mode == eng.state.mode
             idx == eng.state.trial_index
             retired ==
                 IF idx < Len(eng.trials) /\ eng.trials[idx + 1].outcome = Pending
                 THEN [eng EXCEPT !.trials[idx + 1].outcome = Miss]
                 ELSE eng
             next_index == idx + 1
             completed(metrics) ==
                 [eng |-> IF mode = "Practice"
                          THEN [retired EXCEPT !.state = NBackCompleted(mode),
                                               !.last_practice_metrics = Some(metrics)]
                          ELSE [retired EXCEPT !.state = NBackCompleted(mode),
                                               !.last_main_metrics = Some(metrics)],
                  ret |-> AdvanceCompleted(mode)]
         IN IF next_index >= Len(retired.trials)
            THEN completed(NBackMetrics_from_trials(retired.trials))
            ELSE LET waiting == [retired EXCEPT !.state = NBackWaiting(mode, next_index)] IN
                 [eng |-> waiting,
                  ret |-> AdvanceNext(NBackEngine_schedule_current(waiting, next_index))]

NBackEngine_advance(eng, trial_index) ==
    IF ~(eng.state.tag \in {"StimulusActive", "Waiting"} /\ eng.state.trial_index = trial_index)
    THEN [eng |-> eng, ret |-> Ignored]
    ELSE LET mode == eng.state.mode
             idx == eng.state.trial_index
             retired ==
                 IF idx < Len(eng.trials) /\ eng.trials[idx + 1].outcome = Pending
                 THEN [eng EXCEPT !.trials[idx + 1].outcome =
                                     IF eng.trials[idx + 1].is_target
                                     THEN Miss ELSE CorrectRejection]
                 ELSE eng
             next_index == idx + 1
             completed(metrics) ==
                 [eng |-> IF mode = "Practice"
                          THEN [retired EXCEPT !.state = NBackCompleted(mode),
                                               !.last_practice_metrics = Some(metrics)]
                          ELSE [retired EXCEPT !.state = NBackCompleted(mode),
                                               !.last_main_metrics = Some(metrics)],
                  ret |-> AdvanceCompleted(mode)]
         IN IF next_index >= Len(retired.trials)
            THEN completed(NBackMetrics_from_trials(retired.trials))
            ELSE LET waiting == [retired EXCEPT !.state = NBackWaiting(mode, next_index)] IN
                 [eng |-> waiting,
                  ret |-> AdvanceNext(NBackEngine_schedule_current(waiting, next_index))]

NBackEngine_practice_metrics(eng) == eng.last_practice_metrics
NBackEngine_main_metrics(eng) == eng.last_main_metrics

(***************************************************************************)
(* tasks::nback::view: the coroutine and its helpers                       *)
(***************************************************************************)
NBackSignals_new ==
    [practice_metrics |-> None, last_metrics |-> None, last_error |-> None,
     qc_flags |-> QualityFlags_pristine]

\* queue_trial: the stimulus timer carries the advance wait along.
NBack_queue_trial(schedule, clock) ==
    [kind |-> "StimulusReady", run_id |-> schedule.stimulus.run_id,
     trial_index |-> schedule.stimulus.trial_index,
     advance_wait_ms |-> schedule.advance.wait_ms,
     due |-> clock + schedule.stimulus.wait_ms]

NBack_queue_advance(run_id, trial_index, wait_ms, clock) ==
    [kind |-> "Advance", run_id |-> run_id, trial_index |-> trial_index,
     due |-> clock + wait_ms]

\* serde_json::to_value(&metrics) for NBackMetrics
NBackMetrics_to_value(m) ==
    JsonObject([total_trials |-> Json_from_unsigned(m.total_trials),
                target_trials |-> Json_from_unsigned(m.target_trials),
                non_target_trials |-> Json_from_unsigned(m.non_target_trials),
                hits |-> Json_from_unsigned(m.hits),
                misses |-> Json_from_unsigned(m.misses),
                false_alarms |-> Json_from_unsigned(m.false_alarms),
                correct_rejections |-> Json_from_unsigned(m.correct_rejections),
                hit_rate |-> Json_from_f64(m.hit_rate),
                false_alarm_rate |-> Json_from_f64(m.false_alarm_rate),
                accuracy |-> Json_from_f64(m.accuracy),
                d_prime |-> Json_from_f64(m.d_prime),
                criterion |-> Json_from_f64(m.criterion),
                mean_hit_rt_ms |-> Json_from_f64(m.mean_hit_rt_ms),
                median_hit_rt_ms |-> Json_from_f64(m.median_hit_rt_ms),
                sd_hit_rt_ms |-> Json_from_f64(m.sd_hit_rt_ms),
                p10_hit_rt_ms |-> Json_from_f64(m.p10_hit_rt_ms),
                p90_hit_rt_ms |-> Json_from_f64(m.p90_hit_rt_ms),
                response_count |-> Json_from_unsigned(m.response_count)])

\* results::utils::parse_nback_metrics: serde_json::from_value(..).ok()
parse_nback_metrics(record) ==
    LET built(read) ==
            IF Json_all_read(read) THEN Some([name \in DOMAIN read |-> read[name].value])
            ELSE None
        from_object(f) ==
            built([total_trials |-> Json_as_unsigned(f.total_trials),
                   target_trials |-> Json_as_unsigned(f.target_trials),
                   non_target_trials |-> Json_as_unsigned(f.non_target_trials),
                   hits |-> Json_as_unsigned(f.hits),
                   misses |-> Json_as_unsigned(f.misses),
                   false_alarms |-> Json_as_unsigned(f.false_alarms),
                   correct_rejections |-> Json_as_unsigned(f.correct_rejections),
                   hit_rate |-> Json_as_f64(f.hit_rate),
                   false_alarm_rate |-> Json_as_f64(f.false_alarm_rate),
                   accuracy |-> Json_as_f64(f.accuracy),
                   d_prime |-> Json_as_f64(f.d_prime),
                   criterion |-> Json_as_f64(f.criterion),
                   mean_hit_rt_ms |-> Json_as_f64(f.mean_hit_rt_ms),
                   median_hit_rt_ms |-> Json_as_f64(f.median_hit_rt_ms),
                   sd_hit_rt_ms |-> Json_as_f64(f.sd_hit_rt_ms),
                   p10_hit_rt_ms |-> Json_as_f64(f.p10_hit_rt_ms),
                   p90_hit_rt_ms |-> Json_as_f64(f.p90_hit_rt_ms),
                   response_count |-> Json_as_unsigned(f.response_count)])
    IN IF record.metrics.json = "object"
          /\ DOMAIN NBackMetrics_default \subseteq DOMAIN record.metrics.fields
       THEN from_object(record.metrics.fields)
       ELSE None

\* Faulty variant: a practice run is persisted like a main run.
NBack_finalize_run_persists_practice(mode, eng, signals, store, ok) ==
    LET m == IF mode = "Practice" THEN NBackEngine_practice_metrics(eng)
                                  ELSE NBackEngine_main_metrics(eng)
    IN IF ~m.some
       THEN [signals |-> signals, store |-> store, append |-> None]
       ELSE LET qc == [signals.qc_flags EXCEPT !.min_trials_met = TRUE]
                w == append_summary(store, SummaryRecord_new("nback2", NBackMetrics_to_value(m.value), qc), ok)
            IN [signals |-> [signals EXCEPT
                               !.qc_flags = qc,
                               !.last_error = IF w.err.some
                                              THEN Some("Failed to persist summary")
                                              ELSE None,
                               !.last_metrics = m],
                store |-> w.store,
                append |-> Some(~w.err.some)]

NBack_finalize_run(mode, eng, signals, store, ok) ==
    IF mode = "Practice"
    THEN LET m == NBackEngine_practice_metrics(eng) IN
         [signals |-> IF m.some THEN [signals EXCEPT !.practice_metrics = m] ELSE signals,
          store |-> store, append |-> None]
    ELSE LET m == NBackEngine_main_metrics(eng) IN
         IF ~m.some
         THEN [signals |-> signals, store |-> store, append |-> None]
         ELSE LET qc == [signals.qc_flags EXCEPT !.min_trials_met = TRUE]
                  w == append_summary(store, SummaryRecord_new("nback2", NBackMetrics_to_value(m.value), qc), ok)
              IN [signals |-> [signals EXCEPT
                                 !.qc_flags = qc,
                                 !.last_error = IF w.err.some
                                                THEN Some("Failed to persist summary")
                                                ELSE None,
                                 !.last_metrics = m],
                  store |-> w.store,
                  append |-> Some(~w.err.some)]

\* The depth bound on an engine value: the first run is explored to its
\* end, a restart to its first trial.
NBackWithinDepth(eng) ==
    \/ eng.run_id <= 1
    \/ /\ eng.run_id = 2
       /\ eng.state.tag \in {"Waiting", "StimulusActive"} => eng.state.trial_index = 0

\* Both start handlers first install the response window in the config.
NBack_install_window(eng) ==
    [eng EXCEPT !.config.response_window_ms =
                   eng.config.stimulus_ms + eng.config.interstimulus_interval_ms]

NBack_start_event(mode) ==
    LET windowed == NBack_install_window(nbackEngine)
        numbered == [windowed EXCEPT !.run_id = @ + 1]
        \* a rejected start generates nothing
        outcomes == IF windowed.state.tag \in {"Waiting", "StimulusActive"}
                    THEN { << >> }
                    ELSE NBackEngine_generate_trials(numbered, mode)
    IN \E generated \in outcomes :
         LET r == NBackEngine_start(windowed, mode, generated) IN
         /\ NBackWithinDepth(r.eng)
         /\ nbackEngine' = r.eng
         /\ nbackTimers' = IF r.ret.some
                           THEN nbackTimers \cup {NBack_queue_trial(r.ret.value, now)}
                           ELSE nbackTimers
         /\ lastEvent' = [event |-> [kind |-> IF mode = "Practice" THEN "StartPractice"
                                                                    ELSE "StartMain"],
                          ret |-> r.ret, append |-> None]

\* The StimulusReady handler's use of the engine: an event of another run
\* never reaches mark_stimulus_on.
NBackView_mark_stimulus_on(eng, run_id, trial_index, clock) ==
    IF eng.run_id = run_id
    THEN NBackEngine_mark_stimulus_on(eng, trial_index, clock)
    ELSE [eng |-> eng, ret |-> FALSE]

\* The Advance handler's use of the engine.
NBackView_advance(eng, run_id, trial_index) ==
    IF eng.run_id = run_id
    THEN NBackEngine_advance(eng, trial_index)
    ELSE [eng |-> eng, ret |-> Ignored]

NBackEvent_StartPractice ==
    /\ view = "nback"
    /\ NBack_start_event("Practice")
    /\ nbackSignals' = [nbackSignals EXCEPT !.practice_metrics = None,
                                            !.last_error = None]
    /\ UNCHANGED <<view, now, summaries, pvtVars>>

NBackEvent_StartMain ==
    /\ view = "nback"
    /\ NBack_start_event("Main")
    /\ nbackSignals' = [nbackSignals EXCEPT !.last_metrics = None,
                                            !.last_error = None,
                                            !.qc_flags = QualityFlags_pristine]
    /\ UNCHANGED <<view, now, summaries, pvtVars>>

NBackEvent_Abort ==
    /\ view = "nback"
    /\ nbackEngine' = NBackEngine_abort(nbackEngine)
    /\ lastEvent' = [event |-> [kind |-> "Abort"], ret |-> None, append |-> None]
    /\ UNCHANGED <<view, now, nbackSignals, nbackTimers, summaries, pvtVars>>

NBackEvent_StimulusReady ==
    /\ view = "nback"
    /\ \E t \in nbackTimers :
         /\ t.kind = "StimulusReady"
         /\ now >= t.due
         /\ LET r == NBackView_mark_stimulus_on(nbackEngine, t.run_id, t.trial_index, now)
            IN /\ nbackEngine' = r.eng
               /\ nbackTimers' =
                    (nbackTimers \ {t}) \cup
                    (IF r.ret
                     THEN {NBack_queue_advance(t.run_id, t.trial_index, t.advance_wait_ms, now)}
                     ELSE {})
               /\ lastEvent' = [event |-> [kind |-> "StimulusReady", run_id |-> t.run_id,
                                           trial_index |-> t.trial_index],
                                ret |-> Flag(r.ret), append |-> None]
    /\ UNCHANGED <<view, now, nbackSignals, summaries, pvtVars>>

NBackEvent_Respond ==
    /\ view = "nback"
    /\ LET r == NBackEngine_register_response(nbackEngine, now) IN
       /\ nbackEngine' = r.eng
       /\ lastEvent' = [event |-> [kind |-> "Respond"], ret |-> r.ret, append |-> None]
    /\ UNCHANGED <<view, now, nbackSignals, nbackTimers, summaries, pvtVars>>

NBackEvent_Advance ==
    /\ view = "nback"
    /\ \E t \in nbackTimers, ok \in BOOLEAN :
         /\ t.kind = "Advance"
         /\ now >= t.due
         /\ LET finalized(r, f) ==
                    /\ nbackSignals' = f.signals
                    /\ summaries' = f.store
                    /\ nbackTimers' = nbackTimers \ {t}
                    /\ lastEvent' = [event |-> [kind |-> "Advance", run_id |-> t.run_id,
                                                trial_index |-> t.trial_index],
                                     ret |-> r.ret, append |-> f.append]
                handled(r) ==
                    /\ NBackWithinDepth(r.eng)
                    /\ nbackEngine' = r.eng
                    /\ IF r.ret.tag = "Next"
                       THEN /\ nbackTimers' = (nbackTimers \ {t})
                                                \cup {NBack_queue_trial(r.ret.schedule, now)}
                            /\ lastEvent' = [event |-> [kind |-> "Advance",
                                                        run_id |-> t.run_id,
                                                        trial_index |-> t.trial_index],
                                             ret |-> r.ret, append |-> None]
                            /\ UNCHANGED <<nbackSignals, summaries>>
                       ELSE IF r.ret.tag = "Completed"
                       THEN finalized(r, NBack_finalize_run(r.ret.mode, r.eng, nbackSignals,
                                                            summaries, ok))
                       ELSE /\ nbackTimers' = nbackTimers \ {t}
                            /\ lastEvent' = [event |-> [kind |-> "Advance",
                                                        run_id |-> t.run_id,
                                                        trial_index |-> t.trial_index],
                                             ret |-> r.ret, append |-> None]
                            /\ UNCHANGED <<nbackSignals, summaries>>
            IN handled(NBackView_advance(nbackEngine, t.run_id, t.trial_index))
    /\ UNCHANGED <<view, now, pvtVars>>

(***************************************************************************)
(* The clock.  Due timers are delivered before the clock moves on by a     *)
(* whole step, and time is let pass only while a run is active or a timer  *)
(* is still sleeping.                                                      *)
(***************************************************************************)
ClockAdvance ==
    /\ now + ClockStepMs <= MaxClock
    /\ \A t \in pvtTimers \cup nbackTimers : t.due > now
    /\ \/ pvtTimers \cup nbackTimers # {}
       \/ pvtEngine.state.tag \in {"Waiting", "StimulusActive"}
       \/ nbackEngine.state.tag \in {"Waiting", "StimulusActive"}
    /\ now' = now + ClockStepMs
    /\ UNCHANGED <<view, pvtVars, nbackVars, summaries, lastEvent>>

\* PvtEngine::default() and NBackEngine::default().
PvtConfig_default == PvtConfig(18, 2000, 10000, 1000, 12)
NBackConfig_default ==
    NBackConfig(60, 12, [num |-> 3, den |-> 10], 500, 2500, 750, 3000)

\* One view is mounted and the other engine is never driven.  The views
\* build their engine with the default configuration; the mounted engine is
\* given every explored configuration of PvtEngine::new / NBackEngine::new
\* instead (the handlers never look at which configuration it is), with
\* durations scaled down to a few clock steps.
Init ==
    /\ view \in {"pvt", "nback"}
    /\ now = 0
    /\ IF view = "pvt"
       THEN /\ \E config \in PvtConfigs : pvtEngine = PvtEngine_new(config)
            /\ nbackEngine = NBackEngine_new(NBackConfig_default)
       ELSE /\ pvtEngine = PvtEngine_new(PvtConfig_default)
            /\ \E config \in NBackConfigs : nbackEngine = NBackEngine_new(config)
    /\ pvtSignals = PvtSignals_new
    /\ pvtTimers = {}
    /\ nbackSignals = NBackSignals_new
    /\ nbackTimers = {}
    /\ summaries = << >>
    /\ lastEvent = [event |-> [kind |-> "Mount"], ret |-> None, append |-> None]

Next ==
    \/ PvtEvent_Start
    \/ PvtEvent_Abort
    \/ PvtEvent_StimulusReady
    \/ PvtEvent_Respond
    \/ PvtEvent_Timeout
    \/ NBackEvent_StartPractice
    \/ NBackEvent_StartMain
    \/ NBackEvent_Abort
    \/ NBackEvent_StimulusReady
    \/ NBackEvent_Respond
    \/ NBackEvent_Advance
    \/ ClockAdvance

Spec == Init /\ [][Next]_vars

(***************************************************************************)
(* The PVT engine driven through its public methods, as the engine's own   *)
(* tests and a scripted caller drive it: start, abort, mark_stimulus_on,   *)
(* register_response and register_timeout are called directly, for any     *)
(* trial index.  The script answers a stimulus after a reaction time of    *)
(* its choice; no other time passes (the intervals are 0).  One run is     *)
(* scripted, with the configuration of end-to-end scenario A.              *)
(***************************************************************************)
\* Reaction times of the script: an anticipation, a regular reaction, a
\* minor lapse and a reaction as long as the response window.
PvtApiReactionTimes == {50, 300, 400, 500}

PvtApiConfigs == { PvtConfig(3, 0, 0, 500, min) : min \in {1, 2} }

PvtApiInit ==
    /\ view = "pvt"
    /\ now = 0
    /\ \E config \in PvtApiConfigs : pvtEngine = PvtEngine_new(config)
    /\ nbackEngine = NBackEngine_new(NBackConfig_default)
    /\ pvtSignals = PvtSignals_new
    /\ pvtTimers = {}
    /\ nbackSignals = NBackSignals_new
    /\ nbackTimers = {}
    /\ summaries = << >>
    /\ lastEvent = [event |-> [kind |-> "New"], ret |-> None, append |-> None]

PvtApi_start ==
    /\ pvtEngine.run_id = 0
    /\ \E iti \in PvtEngine_random_iti(pvtEngine) :
         LET r == PvtEngine_start(pvtEngine, now, iti) IN
         /\ pvtEngine' = r.eng
         /\ lastEvent' = [event |-> [kind |-> "start"], ret |-> r.ret, append |-> None]
    /\ UNCHANGED <<view, now, pvtSignals, pvtTimers, summaries, nbackVars>>

PvtApi_abort ==
    /\ pvtEngine' = PvtEngine_abort(pvtEngine, now)
    /\ lastEvent' = [event |-> [kind |-> "abort"], ret |-> None, append |-> None]
    /\ UNCHANGED <<view, now, pvtSignals, pvtTimers, summaries, nbackVars>>

PvtApi_mark_stimulus_on ==
    /\ \E trial_index \in 0..pvtEngine.config.target_trials :
         LET r == PvtEngine_mark_stimulus_on(pvtEngine, trial_index, now) IN
         /\ pvtEngine' = r.eng
         /\ lastEvent' = [event |-> [kind |-> "mark_stimulus_on",
                                     trial_index |-> trial_index],
                          ret |-> Flag(r.ret), append |-> None]
    /\ UNCHANGED <<view, now, pvtSignals, pvtTimers, summaries, nbackVars>>

PvtApi_register_response ==
    /\ \E iti \in PvtEngine_random_iti(pvtEngine) :
         LET r == PvtEngine_register_response(pvtEngine, now, now, iti) IN
         /\ pvtEngine' = r.eng
         /\ lastEvent' = [event |-> [kind |-> "register_response"],
                          ret |-> r.ret, append |-> None]
    /\ UNCHANGED <<view, now, pvtSignals, pvtTimers, summaries, nbackVars>>

PvtApi_register_timeout ==
    /\ \E trial_index \in 0..pvtEngine.config.target_trials,
          iti \in PvtEngine_random_iti(pvtEngine) :
         LET r == PvtEngine_register_timeout(pvtEngine, trial_index, now, iti) IN
         /\ pvtEngine' = r.eng
         /\ lastEvent' = [event |-> [kind |-> "register_timeout",
                                     trial_index |-> trial_index],
                          ret |-> r.ret, append |-> None]
    /\ UNCHANGED <<view, now, pvtSignals, pvtTimers, summaries, nbackVars>>

\* engine.metrics(); the engine is left as it is.
PvtApi_metrics ==
    /\ lastEvent' = [event |-> [kind |-> "metrics"], ret |-> PvtEngine_metrics(pvtEngine),
                     append |-> None]
    /\ UNCHANGED <<view, now, pvtVars, nbackVars, summaries>>

\* The stimulus just shown stays unanswered for a reaction time.
PvtApi_elapse ==
    /\ pvtEngine.state.tag = "StimulusActive"
    /\ pvtEngine.trials[pvtEngine.state.trial_index + 1].stimulus_onset = Some(now)
    /\ \E rt_ms \in PvtApiReactionTimes : now' = now + rt_ms
    /\ UNCHANGED <<view, pvtVars, nbackVars, summaries, lastEvent>>

PvtApiNext ==
    \/ PvtApi_start
    \/ PvtApi_abort
    \/ PvtApi_mark_stimulus_on
    \/ PvtApi_register_response
    \/ PvtApi_register_timeout
    \/ PvtApi_metrics
    \/ PvtApi_elapse

PvtApiSpec == PvtApiInit /\ [][PvtApiNext]_vars

(***************************************************************************)
(* The 2-back engine driven through its public methods, as the engine's    *)
(* own tests drive it: start, abort, mark_stimulus_on, register_response   *)
(* and advance are called directly, in any order.  No time passes          *)
(* between the calls (the engine scores a response by the trial it falls   *)
(* on, not by its time).  One run is scripted.                             *)
(***************************************************************************)
NBackApiInit ==
    /\ view = "nback"
    /\ now = 0
    /\ pvtEngine = PvtEngine_new(PvtConfig_default)
    /\ \E config \in NBackApiConfigs : nbackEngine = NBackEngine_new(config)
    /\ pvtSignals = PvtSignals_new
    /\ pvtTimers = {}
    /\ nbackSignals = NBackSignals_new
    /\ nbackTimers = {}
    /\ summaries = << >>
    /\ lastEvent = [event |-> [kind |-> "New"], ret |-> None, append |-> None]

\* The trial indices the script passes: the one the engine is at and the
\* one after it.
NBackApiIndices(eng) ==
    IF eng.state.tag \in {"Waiting", "StimulusActive"}
    THEN {eng.state.trial_index, eng.state.trial_index + 1}
    ELSE {0}

\* engine.start(mode); generate_trials draws for the new run_id.
NBackApi_start ==
    /\ nbackEngine.run_id = 0
    /\ \E mode \in {"Practice", "Main"} :
         \E generated \in NBackEngine_generate_trials(
                             [nbackEngine EXCEPT !.run_id = @ + 1], mode) :
           LET r == NBackEngine_start(nbackEngine, mode, generated) IN
           /\ nbackEngine' = r.eng
           /\ lastEvent' = [event |-> [kind |-> "start", mode |-> mode],
                            ret |-> r.ret, append |-> None]
    /\ UNCHANGED <<view, now, pvtVars, nbackSignals, nbackTimers, summaries>>

NBackApi_abort ==
    /\ nbackEngine' = NBackEngine_abort(nbackEngine)
    /\ lastEvent' = [event |-> [kind |-> "abort"], ret |-> None, append |-> None]
    /\ UNCHANGED <<view, now, pvtVars, nbackSignals, nbackTimers, summaries>>

NBackApi_mark_stimulus_on ==
    /\ \E trial_index \in NBackApiIndices(nbackEngine) :
         LET r == NBackEngine_mark_stimulus_on(nbackEngine, trial_index, now) IN
         /\ nbackEngine' = r.eng
         /\ lastEvent' = [event |-> [kind |-> "mark_stimulus_on",
                                     trial_index |-> trial_index],
                          ret |-> Flag(r.ret), append |-> None]
    /\ UNCHANGED <<view, now, pvtVars, nbackSignals, nbackTimers, summaries>>

NBackApi_register_response ==
    /\ LET r == NBackEngine_register_response(nbackEngine, now) IN
       /\ nbackEngine' = r.eng
       /\ lastEvent' = [event |-> [kind |-> "register_response"],
                        ret |-> r.ret, append |-> None]
    /\ UNCHANGED <<view, now, pvtVars, nbackSignals, nbackTimers, summaries>>

NBackApi_advance ==
    /\ \E trial_index \in NBackApiIndices(nbackEngine) :
         LET r == NBackEngine_advance(nbackEngine, trial_index) IN
         /\ nbackEngine' = r.eng
         /\ lastEvent' = [event |-> [kind |-> "advance", trial_index |-> trial_index],
                          ret |-> r.ret, append |-> None]
    /\ UNCHANGED <<view, now, pvtVars, nbackSignals, nbackTimers, summaries>>

NBackApiNext ==
    \/ NBackApi_start
    \/ NBackApi_abort
    \/ NBackApi_mark_stimulus_on
    \/ NBackApi_register_response
    \/ NBackApi_advance

NBackApiSpec == NBackApiInit /\ [][NBackApiNext]_vars

(***************************************************************************)
(* The statistics helpers of the two metrics modules called on their own,  *)
(* as the modules' unit tests call them.  The call and its arguments are   *)
(* drawn at the start and kept in lastEvent.event; the step applies the    *)
(* helper and stores what it returns in lastEvent.ret.                     *)
(***************************************************************************)
\* The sorted sample of the worked percentile example.
StatsExample == << F64(300), F64(400), F64(500), F64(600) >>

\* Every ascending list of at most as many of the example's values.
StatsSortedLists ==
    { sorted \in UNION { [1..n -> { StatsExample[k] : k \in 1..Len(StatsExample) }] :
                           n \in 0..Len(StatsExample) } :
        \A k \in 1..(Len(sorted) - 1) : RatLeq(sorted[k], sorted[k + 1]) }

\* Fractions handed to percentile, two of them outside [0, 1].
StatsFractions ==
    { Rat(-1, 2), F64(0), Rat(1, 10), Rat(1, 2), Rat(9, 10), F64(1), Rat(3, 2) }

\* Offsets (minutes) and reaction times (ms) handed to slope_minutes, the
\* two lists of any lengths up to three.
StatsOffsetLists ==
    UNION { [1..n -> { F64(0), Rat(1, 2), F64(1) }] : n \in 0..3 }

StatsTimeLists == UNION { [1..n -> { F64(300), F64(500) }] : n \in 0..3 }

\* Trial counts handed to signal_detection_indices.
StatsCounts ==
    { [hits |-> hits, false_alarms |-> false_alarms,
       target_trials |-> target_trials, non_target_trials |-> non_target_trials] :
        hits \in 0..4, false_alarms \in 0..4,
        target_trials \in 0..4, non_target_trials \in 0..4 }

StatsCalls ==
    { [kind |-> "percentile", sorted |-> sorted, pct |-> pct] :
        sorted \in StatsSortedLists, pct \in StatsFractions }
    \cup { [kind |-> "slope_minutes", xs_minutes |-> xs_minutes, ys_ms |-> ys_ms] :
             xs_minutes \in StatsOffsetLists, ys_ms \in StatsTimeLists }
    \cup { [kind |-> "signal_detection_indices", counts |-> counts] :
             counts \in { c \in StatsCounts : /\ c.hits <= c.target_trials
                                              /\ c.false_alarms <= c.non_target_trials } }

StatsInit ==
    /\ view = "pvt"
    /\ now = 0
    /\ pvtEngine = PvtEngine_new(PvtConfig_default)
    /\ nbackEngine = NBackEngine_new(NBackConfig_default)
    /\ pvtSignals = PvtSignals_new
    /\ pvtTimers = {}
    /\ nbackSignals = NBackSignals_new
    /\ nbackTimers = {}
    /\ summaries = << >>
    /\ \E call \in StatsCalls : lastEvent = [event |-> call, ret |-> None, append |-> None]

\* percentile(sorted, pct), the copy of each metrics module.
Stats_percentile ==
    /\ lastEvent.event.kind = "percentile"
    /\ ~lastEvent.ret.some
    /\ lastEvent' =
         [lastEvent EXCEPT !.ret =
            Some([pvt |-> Pvt_percentile(lastEvent.event.sorted, lastEvent.event.pct),
                  nback |-> NBack_percentile(lastEvent.event.sorted, lastEvent.event.pct)])]
    /\ UNCHANGED <<view, now, pvtVars, nbackVars, summaries>>

\* slope_minutes(xs_minutes, ys_ms)
Stats_slope_minutes ==
    /\ lastEvent.event.kind = "slope_minutes"
    /\ ~lastEvent.ret.some
    /\ lastEvent' =
         [lastEvent EXCEPT !.ret =
            Some(Pvt_slope_minutes(lastEvent.event.xs_minutes, lastEvent.event.ys_ms))]
    /\ UNCHANGED <<view, now, pvtVars, nbackVars, summaries>>

\* signal_detection_indices(hits, false_alarms, target_trials, non_target_trials)
Stats_signal_detection_indices ==
    /\ lastEvent.event.kind = "signal_detection_indices"
    /\ ~lastEvent.ret.some
    /\ lastEvent' =
         [lastEvent EXCEPT !.ret =
            Some(NBack_signal_detection_indices(lastEvent.event.counts.hits,
                                                lastEvent.event.counts.false_alarms,
                                                lastEvent.event.counts.target_trials,
                                                lastEvent.event.counts.non_target_trials))]
    /\ UNCHANGED <<view, now, pvtVars, nbackVars, summaries>>

StatsNext ==
    \/ Stats_percentile
    \/ Stats_slope_minutes
    \/ Stats_signal_detection_indices

StatsSpec == StatsInit /\ [][StatsNext]_vars

(***************************************************************************)
(* The 2-back view on the clock of its sleeping futures: the handlers are  *)
(* those of the event loop above; between events time passes until the     *)
(* earliest sleeping future (timing::sleep_ms) is due.  One run is started.*)
(***************************************************************************)
NBackTimedInit ==
    /\ view = "nback"
    /\ now = 0
    /\ pvtEngine = PvtEngine_new(PvtConfig_default)
    /\ \E config \in NBackTimedConfigs : nbackEngine = NBackEngine_new(config)
    /\ pvtSignals = PvtSignals_new
    /\ pvtTimers = {}
    /\ nbackSignals = NBackSignals_new
    /\ nbackTimers = {}
    /\ summaries = << >>
    /\ lastEvent = [event |-> [kind |-> "Mount"], ret |-> None, append |-> None]

NBackTimed_StartPractice == nbackEngine.run_id = 0 /\ NBackEvent_StartPractice

NBackTimed_StartMain == nbackEngine.run_id = 0 /\ NBackEvent_StartMain

\* timing::sleep_ms: the earliest sleeping future becomes due.
NBackTimed_sleep ==
    /\ nbackTimers # {}
    /\ \A t \in nbackTimers : t.due > now
    /\ \E t \in nbackTimers :
         /\ \A other \in nbackTimers : t.due <= other.due
         /\ now' = t.due
    /\ UNCHANGED <<view, pvtVars, nbackVars, summaries, lastEvent>>

NBackTimedNext ==
    \/ NBackTimed_StartPractice
    \/ NBackTimed_StartMain
    \/ NBackEvent_Abort
    \/ NBackEvent_StimulusReady
    \/ NBackEvent_Respond
    \/ NBackEvent_Advance
    \/ NBackTimed_sleep

NBackTimedSpec == NBackTimedInit /\ [][NBackTimedNext]_vars

\* A timer that is due leaves the queue: its sleep has ended and the
\* coroutine takes its event.  (What the handler then does with the event,
\* the next timer it may queue included, is the handler's action above.)
NBackTimed_wakes(kind) ==
    \E t \in nbackTimers :
        /\ t.kind = kind
        /\ now >= t.due
        /\ nbackTimers' = nbackTimers \ {t}

\* The clock reaches every sleeping timer, and no due timer stays queued
\* for ever.
NBackTimedFairness ==
    /\ WF_<<now, nbackTimers>>(NBackTimed_sleep)
    /\ WF_nbackTimers(NBackTimed_wakes("StimulusReady"))
    /\ WF_nbackTimers(NBackTimed_wakes("Advance"))

NBackTimedLiveSpec == NBackTimedInit /\ [][NBackTimedNext]_vars /\ NBackTimedFairness

(***************************************************************************)
(* Properties.                                                             *)
(*                                                                         *)
(* A step of the event loop leaves the clock alone and records the event   *)
(* it handled in lastEvent'; ClockAdvance is the only other step.          *)
(***************************************************************************)
Handles(kind) == now' = now /\ lastEvent'.event.kind = kind

IsActive(state) == state.tag \in {"Waiting", "StimulusActive"}

\* C1: in either view, delivering a StimulusReady, Timeout or Advance event
\* that carries another run's run_id is ignored, whatever trial_index it
\* carries and whatever state the engine is in: the engine (state, trials,
\* counters, run_id) is unchanged, no timer is scheduled, and nothing is
\* published or stored.
C1_StaleTimerEventIgnored ==
    [][ /\ (view = "pvt" /\ (Handles("StimulusReady") \/ Handles("Timeout"))
              /\ lastEvent'.event.run_id # pvtEngine.run_id)
           => /\ pvtEngine' = pvtEngine
              /\ pvtTimers' \subseteq pvtTimers
              /\ pvtSignals' = pvtSignals
              /\ summaries' = summaries
              /\ lastEvent'.ret = (IF Handles("Timeout") THEN Ignored ELSE Flag(FALSE))
        /\ (view = "nback" /\ (Handles("StimulusReady") \/ Handles("Advance"))
              /\ lastEvent'.event.run_id # nbackEngine.run_id)
           => /\ nbackEngine' = nbackEngine
              /\ nbackTimers' \subseteq nbackTimers
              /\ nbackSignals' = nbackSignals
              /\ summaries' = summaries
              /\ lastEvent'.ret = (IF Handles("Advance") THEN Ignored ELSE Flag(FALSE))
      ]_vars

\* C1 witness: a Timeout of run 1 for trial 0 has just been delivered while
\* run 2 shows the stimulus of its own trial 0.
C1_Witness ==
    /\ view = "pvt"
    /\ lastEvent.event.kind = "Timeout"
    /\ lastEvent.event.run_id = 1
    /\ lastEvent.event.trial_index = 0
    /\ pvtEngine.run_id = 2
    /\ pvtEngine.state = PvtStimulusActive(0)

\* C2: (PVT) when the Timeout of trial i has retired that trial as a Lapse,
\* a Respond handled next does not change the engine: no trial's outcome
\* changes, the false-start count does not change, no trial is appended and
\* the state is unchanged.
C2_ResponseAfterTimeoutIgnored ==
    [][ (/\ view = "pvt"
         /\ Handles("Respond")
         /\ lastEvent.event.kind = "Timeout"
         /\ lastEvent.ret # Ignored
         /\ pvtEngine.trials[lastEvent.event.trial_index + 1].outcome = Lapse)
        => /\ pvtEngine'.state = pvtEngine.state
           /\ Len(pvtEngine'.trials) = Len(pvtEngine.trials)
           /\ \A k \in 1..Len(pvtEngine.trials) :
                pvtEngine'.trials[k].outcome = pvtEngine.trials[k].outcome
           /\ pvtEngine'.total_false_starts = pvtEngine.total_false_starts
      ]_vars

\* C3: within one run of either engine the active trial_index never
\* decreases and grows by exactly 1 at each retirement (PVT: the active
\* trial gets its outcome; 2-back: an Advance is accepted), the engine does
\* not go back from StimulusActive to Waiting on the same index, an ended
\* run is not re-entered, and the index entered is one not yet retired.
C3_TrialIndexAdvancesByOne ==
    [][ /\ (pvtEngine'.run_id = pvtEngine.run_id /\ IsActive(pvtEngine'.state))
           => /\ IsActive(pvtEngine.state)
              /\ LET i == pvtEngine.state.trial_index
                     j == pvtEngine'.state.trial_index
                     retires == /\ pvtEngine.trials[i + 1].outcome = Pending
                                /\ pvtEngine'.trials[i + 1].outcome # Pending
                 IN /\ j = (IF retires THEN i + 1 ELSE i)
                    /\ (j = i /\ pvtEngine.state.tag = "StimulusActive")
                         => pvtEngine'.state.tag = "StimulusActive"
                    /\ \A k \in 1..Len(pvtEngine'.trials) :
                         (pvtEngine'.trials[k].outcome = Pending) <=> (k = j + 1)
        /\ (nbackEngine'.run_id = nbackEngine.run_id /\ IsActive(nbackEngine'.state))
           => /\ IsActive(nbackEngine.state)
              /\ LET i == nbackEngine.state.trial_index
                     j == nbackEngine'.state.trial_index
                     retires == /\ view = "nback"
                                /\ Handles("Advance")
                                /\ lastEvent'.ret # Ignored
                 IN /\ j = (IF retires THEN i + 1 ELSE i)
                    /\ (j = i /\ nbackEngine.state.tag = "StimulusActive")
                         => nbackEngine'.state.tag = "StimulusActive"
                    /\ \A k \in 1..Len(nbackEngine'.trials) :
                         /\ k < j + 1 => nbackEngine'.trials[k].outcome # Pending
                         /\ k > j + 1 => nbackEngine'.trials[k].outcome = Pending
      ]_vars

\* C3 witness: an accepted Advance has just moved a 2-back run on to its
\* third trial.
C3_Witness ==
    /\ view = "nback"
    /\ lastEvent.event.kind = "Advance"
    /\ lastEvent.ret # Ignored
    /\ nbackEngine.state.tag = "Waiting"
    /\ nbackEngine.state.trial_index = 2

\* C4: within a run a PVT trial's outcome changes only from Pending to
\* Reaction, Lapse or FalseStart and never again; only a Timeout gives a
\* Lapse and only a Respond gives a Reaction or a FalseStart, so a Lapse
\* never becomes a Reaction and a late Timeout never turns a Reaction into a
\* Lapse.
C4_OutcomeSetOnce ==
    [][ pvtEngine'.run_id = pvtEngine.run_id
        => /\ Len(pvtEngine'.trials) >= Len(pvtEngine.trials)
           /\ \A k \in 1..Len(pvtEngine.trials) :
                LET before == pvtEngine.trials[k].outcome
                    after == pvtEngine'.trials[k].outcome
                IN after # before
                   => /\ before = Pending
                      /\ after.tag \in {"Reaction", "Lapse", "FalseStart"}
                      /\ after = Lapse => Handles("Timeout")
                      /\ after # Lapse => Handles("Respond")
      ]_vars

\* C4 witness: the Timeout of a trial that already carries a Reaction has
\* just been delivered in the same run.
C4_Witness ==
    /\ view = "pvt"
    /\ lastEvent.event.kind = "Timeout"
    /\ lastEvent.event.run_id = pvtEngine.run_id
    /\ pvtEngine.trials[lastEvent.event.trial_index + 1].outcome.tag = "Reaction"

\* C5: (PVT) for every configured target_trials: while the state is Waiting
\* or StimulusActive fewer than target_trials trials are non-Pending, and in
\* Completed exactly target_trials trials exist and none of them is Pending.
C5_CompletedExactlyAtTarget ==
    /\ IsActive(pvtEngine.state)
       => PvtEngine_completed_trial_count(pvtEngine) < pvtEngine.config.target_trials
    /\ pvtEngine.state = PvtCompleted
       => /\ Len(pvtEngine.trials) = pvtEngine.config.target_trials
          /\ \A k \in 1..Len(pvtEngine.trials) : pvtEngine.trials[k].outcome # Pending

\* C6: (PVT) a Respond handled in StimulusActive{i}, with rt the response
\* time minus the stimulus onset: rt < 100 makes trial i a FalseStart and
\* adds one to the false-start count; rt >= 100 makes it a Reaction carrying
\* exactly rt and leaves the count unchanged.
C6_StimulusPhaseResponse ==
    [][ (view = "pvt" /\ Handles("Respond") /\ pvtEngine.state.tag = "StimulusActive")
        => LET i == pvtEngine.state.trial_index
               rt == now - pvtEngine.trials[i + 1].stimulus_onset.value
               after == pvtEngine'.trials[i + 1]
           IN /\ after.response_at = Some(now)
              /\ IF rt < 100
                 THEN /\ after.outcome = FalseStart
                      /\ pvtEngine'.total_false_starts = pvtEngine.total_false_starts + 1
                 ELSE /\ after.outcome = Reaction(rt)
                      /\ pvtEngine'.total_false_starts = pvtEngine.total_false_starts
      ]_vars

\* C6 witness: a response exactly on the threshold has just been scored as
\* a Reaction.
C6_Witness ==
    /\ view = "pvt"
    /\ lastEvent.event.kind = "Respond"
    /\ lastEvent.ret # Ignored
    /\ \E k \in 1..Len(pvtEngine.trials) :
         /\ pvtEngine.trials[k].response_at = Some(now)
         /\ pvtEngine.trials[k].outcome = Reaction(100)

\* How a PVT response or timeout that retired trial i moves on: to
\* Completed with RunCompleted once the non-Pending trials reach the target,
\* else to Waiting{i+1} on a newly appended Pending trial with NextScheduled.
PvtAdvancedFrom(i) ==
    LET n == Len(pvtEngine.trials)
        done == Cardinality({ k \in 1..n : pvtEngine'.trials[k].outcome # Pending })
    IN IF done >= pvtEngine.config.target_trials
       THEN /\ pvtEngine'.state = PvtCompleted
            /\ Len(pvtEngine'.trials) = n
            /\ lastEvent'.ret = RunCompleted
       ELSE /\ pvtEngine'.state = PvtWaiting(i + 1)
            /\ Len(pvtEngine'.trials) = n + 1
            /\ pvtEngine'.trials[n + 1].index = i + 1
            /\ pvtEngine'.trials[n + 1].outcome = Pending
            /\ pvtEngine'.trials[n + 1].stimulus_onset = None
            /\ lastEvent'.ret = NextScheduled(PvtScheduledStimulus(
                                   pvtEngine.run_id, i + 1, pvtEngine'.trials[n + 1].iti_ms))

\* C7: (PVT) a Respond handled in Waiting{i} makes trial i a FalseStart,
\* adds one to the false-start count, and then advances exactly as a
\* response in StimulusActive{i} does: to Waiting{i+1} with a newly appended
\* Pending trial and NextScheduled, or to Completed with RunCompleted when
\* the target count is reached.
C7_WaitingPhaseResponse ==
    [][ /\ (view = "pvt" /\ Handles("Respond") /\ pvtEngine.state.tag = "Waiting")
           => LET i == pvtEngine.state.trial_index
              IN /\ pvtEngine'.trials[i + 1].outcome = FalseStart
                 /\ pvtEngine'.trials[i + 1].stimulus_onset = None
                 /\ pvtEngine'.total_false_starts = pvtEngine.total_false_starts + 1
                 /\ PvtAdvancedFrom(i)
        /\ (view = "pvt" /\ Handles("Respond") /\ pvtEngine.state.tag = "StimulusActive")
           => PvtAdvancedFrom(pvtEngine.state.trial_index)
      ]_vars

\* C7 witness: a response before the stimulus of trial 0 has just been
\* scored and the run waits on trial 1.
C7_Witness ==
    /\ view = "pvt"
    /\ lastEvent.event.kind = "Respond"
    /\ lastEvent.ret # Ignored
    /\ pvtEngine.state = PvtWaiting(1)
    /\ pvtEngine.trials[1].outcome = FalseStart
    /\ pvtEngine.trials[1].stimulus_onset = None
    /\ pvtEngine.total_false_starts = 1

\* C8: (PVT) within the current run mark_stimulus_on(i) acts only in
\* Waiting{i} (it records the onset and enters StimulusActive{i}) and
\* register_timeout(i) only in StimulusActive{i} (it makes trial i a Lapse
\* and advances); in any other state or with another index they return
\* false / Ignored and leave the engine unchanged.
C8_TimerEventsNeedTheirState ==
    [][ /\ (view = "pvt" /\ Handles("StimulusReady")
              /\ lastEvent'.event.run_id = pvtEngine.run_id)
           => LET i == lastEvent'.event.trial_index
              IN IF pvtEngine.state = PvtWaiting(i)
                 THEN /\ lastEvent'.ret = Flag(TRUE)
                      /\ pvtEngine'.state = PvtStimulusActive(i)
                      /\ pvtEngine'.trials[i + 1].stimulus_onset = Some(now)
                      /\ pvtEngine'.trials[i + 1].outcome = Pending
                      /\ pvtEngine'.total_false_starts = pvtEngine.total_false_starts
                 ELSE /\ lastEvent'.ret = Flag(FALSE)
                      /\ pvtEngine' = pvtEngine
        /\ (view = "pvt" /\ Handles("Timeout")
              /\ lastEvent'.event.run_id = pvtEngine.run_id)
           => LET i == lastEvent'.event.trial_index
              IN IF pvtEngine.state = PvtStimulusActive(i)
                 THEN /\ pvtEngine'.trials[i + 1].outcome = Lapse
                      /\ pvtEngine'.total_false_starts = pvtEngine.total_false_starts
                      /\ PvtAdvancedFrom(i)
                 ELSE /\ lastEvent'.ret = Ignored
                      /\ pvtEngine' = pvtEngine
      ]_vars

\* C8 witness: the StimulusReady of a trial that a response has already
\* retired has just been delivered while the run waits on the next trial.
C8_Witness ==
    /\ view = "pvt"
    /\ lastEvent.event.kind = "StimulusReady"
    /\ lastEvent.event.run_id = pvtEngine.run_id
    /\ pvtEngine.state.tag = "Waiting"
    /\ pvtEngine.state.trial_index # lastEvent.event.trial_index

\* C9: in both engines a start handled while a run is active (Waiting or
\* StimulusActive) returns no scheduling request and leaves the state, the
\* trial list, run_id and (PVT) the false-start count unchanged; no timer is
\* scheduled.
C9_StartWhileActiveRejected ==
    [][ /\ (view = "pvt" /\ Handles("Start") /\ IsActive(pvtEngine.state))
           => /\ lastEvent'.ret = None
              /\ pvtEngine' = pvtEngine
              /\ pvtTimers' = pvtTimers
        /\ (view = "nback" /\ (Handles("StartPractice") \/ Handles("StartMain"))
              /\ IsActive(nbackEngine.state))
           => /\ lastEvent'.ret = None
              /\ nbackEngine'.state = nbackEngine.state
              /\ nbackEngine'.trials = nbackEngine.trials
              /\ nbackEngine'.run_id = nbackEngine.run_id
              /\ nbackTimers' = nbackTimers
      ]_vars

\* C9 witness: a Start has just been rejected while the stimulus of a PVT
\* trial is showing.
C9_Witness ==
    /\ view = "pvt"
    /\ lastEvent.event.kind = "Start"
    /\ lastEvent.ret = None
    /\ pvtEngine.state.tag = "StimulusActive"

\* C10: (PVT) a Start handled in Idle, Completed or Aborted leaves exactly
\* one trial (index 0, Pending, no onset), a false-start count of 0, state
\* Waiting{0} and run_id one greater, and returns (run_id, 0, wait_ms) with
\* wait_ms trial 0's stored interval, within [min_iti_ms, max_iti_ms]; every
\* NextScheduled names the trial just appended, the current run_id and that
\* trial's stored interval, within the same range.
C10_StartAndNextScheduled ==
    [][ /\ (view = "pvt" /\ Handles("Start") /\ ~IsActive(pvtEngine.state))
           => /\ Len(pvtEngine'.trials) = 1
              /\ pvtEngine'.trials[1].index = 0
              /\ pvtEngine'.trials[1].outcome = Pending
              /\ pvtEngine'.trials[1].stimulus_onset = None
              /\ pvtEngine'.total_false_starts = 0
              /\ pvtEngine'.state = PvtWaiting(0)
              /\ pvtEngine'.run_id = pvtEngine.run_id + 1
              /\ lastEvent'.ret = Some(PvtScheduledStimulus(pvtEngine'.run_id, 0,
                                                            pvtEngine'.trials[1].iti_ms))
              /\ pvtEngine'.trials[1].iti_ms >= pvtEngine.config.min_iti_ms
              /\ pvtEngine'.trials[1].iti_ms <= pvtEngine.config.max_iti_ms
        /\ (/\ view = "pvt"
            /\ Handles("Respond") \/ Handles("Timeout")
            /\ lastEvent'.ret # Ignored
            /\ lastEvent'.ret # RunCompleted)
           => LET n == Len(pvtEngine'.trials)
                  schedule == lastEvent'.ret.schedule
              IN /\ n = Len(pvtEngine.trials) + 1
                 /\ schedule.trial_index = pvtEngine'.trials[n].index
                 /\ schedule.trial_index = n - 1
                 /\ schedule.run_id = pvtEngine'.run_id
                 /\ schedule.wait_ms = pvtEngine'.trials[n].iti_ms
                 /\ schedule.wait_ms >= pvtEngine.config.min_iti_ms
                 /\ schedule.wait_ms <= pvtEngine.config.max_iti_ms
      ]_vars

\* C10 witness: a restart has just been accepted and drew the largest
\* interval of a range with more than one value.
C10_Witness ==
    /\ view = "pvt"
    /\ lastEvent.event.kind = "Start"
    /\ lastEvent.ret # None
    /\ pvtEngine.run_id = 2
    /\ pvtEngine.config.min_iti_ms < pvtEngine.config.max_iti_ms
    /\ lastEvent.ret.value.wait_ms = pvtEngine.config.max_iti_ms

\* C11: (NBack) a start(mode) handled in Idle, Completed or Aborted replaces
\* the trial list with a generated one of practice_trials (Practice) or
\* total_trials (Main) trials, each Pending with no onset and no response,
\* makes run_id one greater and the state Waiting{mode, 0}, and returns the
\* schedule of trial 0 under the new run_id whose stimulus wait is the
\* lead-in delay.
C11_NBackStartFreshRun ==
    [][ \A mode \in {"Practice", "Main"} :
          (/\ view = "nback"
           /\ Handles(IF mode = "Practice" THEN "StartPractice" ELSE "StartMain")
           /\ ~IsActive(nbackEngine.state))
          => LET length == IF mode = "Practice"
                           THEN nbackEngine.config.practice_trials
                           ELSE nbackEngine.config.total_trials
                 trials == nbackEngine'.trials
             IN /\ Len(trials) = length
                /\ \A k \in 1..Len(trials) :
                     /\ trials[k].index = k - 1
                     /\ trials[k].outcome = Pending
                     /\ trials[k].presented_at = None
                     /\ trials[k].response = None
                /\ nbackEngine'.run_id = nbackEngine.run_id + 1
                /\ nbackEngine'.state = NBackWaiting(mode, 0)
                /\ lastEvent'.ret.some
                /\ lastEvent'.ret.value.stimulus.run_id = nbackEngine'.run_id
                /\ lastEvent'.ret.value.stimulus.trial_index = 0
                /\ lastEvent'.ret.value.stimulus.wait_ms = nbackEngine.config.lead_in_ms
                /\ lastEvent'.ret.value.advance.run_id = nbackEngine'.run_id
                /\ lastEvent'.ret.value.advance.trial_index = 0
      ]_vars

\* C11 witness: a main run has just been started after a completed practice
\* run, with a lead-in delay that differs from the inter-stimulus interval,
\* and the practice run's retired trial gave way to a Pending one.
C11_Witness ==
    /\ view = "nback"
    /\ lastEvent.event.kind = "StartMain"
    /\ lastEvent.ret # None
    /\ nbackEngine.run_id = 2
    /\ nbackEngine.config.lead_in_ms # nbackEngine.config.interstimulus_interval_ms
    /\ Len(nbackEngine.trials) = nbackEngine.config.total_trials
    /\ nbackEngine.trials[1].outcome = Pending
    /\ nbackSignals.practice_metrics # None

\* C12: in both engines run_id never decreases: a start that is accepted
\* (handled in Idle, Completed or Aborted) makes it exactly one greater, and
\* no other step (a rejected start, an abort, a timer event, a response, the
\* passing of time) changes it.
C12_RunIdMonotonic ==
    [][ /\ pvtEngine'.run_id >= pvtEngine.run_id
        /\ nbackEngine'.run_id >= nbackEngine.run_id
        /\ IF view = "pvt" /\ Handles("Start") /\ ~IsActive(pvtEngine.state)
           THEN pvtEngine'.run_id = pvtEngine.run_id + 1
           ELSE pvtEngine'.run_id = pvtEngine.run_id
        /\ IF /\ view = "nback"
              /\ Handles("StartPractice") \/ Handles("StartMain")
              /\ ~IsActive(nbackEngine.state)
           THEN nbackEngine'.run_id = nbackEngine.run_id + 1
           ELSE nbackEngine'.run_id = nbackEngine.run_id
      ]_vars

\* C12 witness: the second n-back run has been started and then aborted, and
\* its number is still 2.
C12_Witness ==
    /\ view = "nback"
    /\ lastEvent.event.kind = "Abort"
    /\ nbackEngine.state = NBackAborted
    /\ nbackEngine.run_id = 2
    /\ Len(nbackEngine.trials) > 0

\* C13: in both engines an abort handled in any state (Idle and Completed
\* included) leaves the engine Aborted and changes neither run_id nor the
\* outcome of any trial (nor the number of trials).
C13_AbortFromAnyState ==
    [][ /\ (view = "pvt" /\ Handles("Abort"))
           => /\ pvtEngine'.state = PvtAborted
              /\ pvtEngine'.run_id = pvtEngine.run_id
              /\ Len(pvtEngine'.trials) = Len(pvtEngine.trials)
              /\ \A k \in 1..Len(pvtEngine.trials) :
                   pvtEngine'.trials[k].outcome = pvtEngine.trials[k].outcome
        /\ (view = "nback" /\ Handles("Abort"))
           => /\ nbackEngine'.state = NBackAborted
              /\ nbackEngine'.run_id = nbackEngine.run_id
              /\ Len(nbackEngine'.trials) = Len(nbackEngine.trials)
              /\ \A k \in 1..Len(nbackEngine.trials) :
                   nbackEngine'.trials[k].outcome = nbackEngine.trials[k].outcome
      ]_vars

\* C13 witness: the first n-back run was completed (its metrics are
\* published) and the engine has then been aborted; every trial still has
\* the outcome the run gave it.
C13_Witness ==
    /\ view = "nback"
    /\ lastEvent.event.kind = "Abort"
    /\ nbackEngine.state = NBackAborted
    /\ nbackEngine.run_id = 1
    /\ nbackSignals.last_metrics # None
    /\ Len(nbackEngine.trials) > 0
    /\ \A k \in 1..Len(nbackEngine.trials) : nbackEngine.trials[k].outcome # Pending

\* C14: (PVT) metrics() returns a record if and only if the engine state is
\* Completed; in Idle, Waiting, StimulusActive and Aborted, Aborted after a
\* completed run included, it returns nothing.
C14_PvtMetricsOnlyWhenCompleted ==
    /\ PvtEngine_metrics(pvtEngine) # None <=> pvtEngine.state = PvtCompleted
    /\ pvtEngine.state.tag \in {"Idle", "Waiting", "StimulusActive", "Aborted"}
         => PvtEngine_metrics(pvtEngine) = None
    /\ pvtEngine.state = PvtCompleted
         => PvtEngine_metrics(pvtEngine).some

\* C14 witness: the first PVT run was completed and published its metrics,
\* and the engine has then been aborted with every trial retired.
C14_Witness ==
    /\ view = "pvt"
    /\ lastEvent.event.kind = "Abort"
    /\ pvtEngine.state = PvtAborted
    /\ pvtEngine.run_id = 1
    /\ pvtSignals.last_metrics # None
    /\ Len(pvtEngine.trials) > 0
    /\ \A k \in 1..Len(pvtEngine.trials) : pvtEngine.trials[k].outcome # Pending

\* C15: (NBack) an advance(i) accepted for the current trial i turns a
\* Pending outcome into Miss when the trial is a target and CorrectRejection
\* otherwise, and leaves a Hit or FalseAlarm set by a response as it is (no
\* other trial changes); an advance whose index is not the current one, or
\* handled in Idle, Completed or Aborted, returns Ignored and changes
\* nothing (checked for the Advance events delivered, and for the engine
\* operation with every index in every state reached).
C15_AdvanceRetiresCurrentTrial ==
    [][ /\ (/\ view = "nback"
            /\ Handles("Advance")
            /\ lastEvent'.event.run_id = nbackEngine.run_id)
           => LET i == lastEvent'.event.trial_index
                  old == nbackEngine.trials
                  new == nbackEngine'.trials
              IN IF IsActive(nbackEngine.state) /\ nbackEngine.state.trial_index = i
                 THEN /\ lastEvent'.ret # Ignored
                      /\ Len(new) = Len(old)
                      /\ \A k \in 1..Len(old) :
                           IF k = i + 1 /\ old[k].outcome = Pending
                           THEN new[k] = [old[k] EXCEPT !.outcome =
                                            IF old[k].is_target
                                            THEN Miss ELSE CorrectRejection]
                           ELSE new[k] = old[k]
                 ELSE /\ lastEvent'.ret = Ignored
                      /\ nbackEngine' = nbackEngine
                      /\ nbackSignals' = nbackSignals
                      /\ summaries' = summaries
                      /\ nbackTimers' \subseteq nbackTimers
        /\ \A i \in 0..NBackMaxLength :
             ~(IsActive(nbackEngine.state) /\ nbackEngine.state.trial_index = i)
             => NBackEngine_advance(nbackEngine, i) = [eng |-> nbackEngine, ret |-> Ignored]
      ]_vars

\* C15 witness: an advance has just retired a trial that a response had
\* already scored as a Hit, and the Hit is still there.
C15_Witness ==
    /\ view = "nback"
    /\ lastEvent.event.kind = "Advance"
    /\ lastEvent.ret # Ignored
    /\ lastEvent.event.run_id = nbackEngine.run_id
    /\ lastEvent.event.trial_index < Len(nbackEngine.trials)
    /\ nbackEngine.trials[lastEvent.event.trial_index + 1].outcome.tag = "Hit"

\* C16: (NBack) a response handled in StimulusActive{i} while trial i has no
\* response yet records the response (its time and the time since onset)
\* and scores the trial Hit if it is a target and FalseAlarm otherwise,
\* returning Recorded(kind) and leaving the state and every other trial
\* alone; a second response on the same trial, or a response in Idle,
\* Waiting, Completed or Aborted, returns Ignored and changes no trial and
\* no state.
C16_NBackResponseScoredOnce ==
    [][ (view = "nback" /\ Handles("Respond"))
        => LET old == nbackEngine.trials
               new == nbackEngine'.trials
           IN IF /\ nbackEngine.state.tag = "StimulusActive"
                 /\ old[nbackEngine.state.trial_index + 1].response = None
              THEN LET k == nbackEngine.state.trial_index + 1
                       rt_ms == duration_ms(old[k].presented_at.value, now)
                   IN /\ old[k].presented_at # None
                      /\ new = [old EXCEPT
                                  ![k].response = Some([timestamp |-> now, rt_ms |-> rt_ms]),
                                  ![k].outcome = IF old[k].is_target
                                                 THEN Hit(rt_ms) ELSE FalseAlarm(rt_ms)]
                      /\ lastEvent'.ret = Recorded(IF old[k].is_target
                                                   THEN "Hit" ELSE "FalseAlarm")
                      /\ nbackEngine' = [nbackEngine EXCEPT !.trials = new]
              ELSE /\ lastEvent'.ret = Ignored
                   /\ nbackEngine' = nbackEngine
      ]_vars

\* C16 witness: a second response has just been ignored while the letter of
\* a trial that already holds a response is still showing.
C16_Witness ==
    /\ view = "nback"
    /\ lastEvent.event.kind = "Respond"
    /\ lastEvent.ret = Ignored
    /\ nbackEngine.state.tag = "StimulusActive"
    /\ nbackEngine.trials[nbackEngine.state.trial_index + 1].response # None

\* C17: the NBack engine enters Completed{mode} exactly at the step where an
\* accepted advance retires the last trial of the list; at that step the
\* metrics of the run's trials are stored in the slot of that mode and the
\* other mode's slot keeps its value.
C17_CompletedWhenLastTrialRetired ==
    [][ view = "nback" =>
        LET retires_last ==
              /\ Handles("Advance")
              /\ lastEvent'.event.run_id = nbackEngine.run_id
              /\ IsActive(nbackEngine.state)
              /\ nbackEngine.state.trial_index = lastEvent'.event.trial_index
              /\ nbackEngine.state.trial_index + 1 >= Len(nbackEngine.trials)
            enters_completed ==
              /\ nbackEngine'.state.tag = "Completed"
              /\ nbackEngine'.state # nbackEngine.state
        IN /\ retires_last <=> enters_completed
           /\ retires_last
              => LET mode == nbackEngine.state.mode
                     metrics == Some(NBackMetrics_from_trials(nbackEngine'.trials))
                 IN /\ nbackEngine'.state = NBackCompleted(mode)
                    /\ lastEvent'.ret = AdvanceCompleted(mode)
                    /\ mode = "Practice"
                       => /\ NBackEngine_practice_metrics(nbackEngine') = metrics
                          /\ NBackEngine_main_metrics(nbackEngine')
                               = NBackEngine_main_metrics(nbackEngine)
                    /\ mode = "Main"
                       => /\ NBackEngine_main_metrics(nbackEngine') = metrics
                          /\ NBackEngine_practice_metrics(nbackEngine')
                               = NBackEngine_practice_metrics(nbackEngine)
      ]_vars

\* C17 witness: a practice run has just been completed by the advance of
\* its last trial, after a main run whose metrics are held in the other
\* slot and differ from the practice run's.
C17_Witness ==
    /\ view = "nback"
    /\ lastEvent.event.kind = "Advance"
    /\ nbackEngine.state = NBackCompleted("Practice")
    /\ lastEvent.ret = AdvanceCompleted("Practice")
    /\ NBackEngine_main_metrics(nbackEngine) # None
    /\ NBackEngine_practice_metrics(nbackEngine) # None
    /\ NBackEngine_main_metrics(nbackEngine) # NBackEngine_practice_metrics(nbackEngine)

\* C18: no practice run is ever persisted: the summary store changes only by
\* the append of one record, either of task "pvt" at the step that completes
\* a PVT run or of task "nback2" at the step that completes an n-back Main
\* run; the step that completes a Practice run calls no append and leaves
\* the store as it was.
C18_OnlyMainAndPvtRunsPersisted ==
    [][ /\ summaries' # summaries
           => /\ Len(summaries') = Len(summaries) + 1
              /\ SubSeq(summaries', 1, Len(summaries)) = summaries
              /\ LET record == summaries'[Len(summaries')] IN
                 \/ /\ view = "pvt"
                    /\ record.task = "pvt"
                    /\ IsActive(pvtEngine.state)
                    /\ pvtEngine'.state = PvtCompleted
                 \/ /\ view = "nback"
                    /\ record.task = "nback2"
                    /\ IsActive(nbackEngine.state)
                    /\ nbackEngine.state.mode = "Main"
                    /\ nbackEngine'.state = NBackCompleted("Main")
        /\ (/\ view = "nback"
            /\ IsActive(nbackEngine.state)
            /\ nbackEngine.state.mode = "Practice")
           => /\ summaries' = summaries
              /\ lastEvent'.append = None
      ]_vars

\* C18 witness: a practice run has just been completed after a main run;
\* the store holds the main run's record and nothing else.
C18_Witness ==
    /\ view = "nback"
    /\ lastEvent.event.kind = "Advance"
    /\ lastEvent.ret = AdvanceCompleted("Practice")
    /\ nbackEngine.state = NBackCompleted("Practice")
    /\ nbackSignals.practice_metrics # None
    /\ Len(summaries) = 1
    /\ summaries[1].task = "nback2"

\* C19: append_summary is called exactly at the event that takes a PVT run
\* or an n-back Main run from an active state to Completed, once; no other
\* event calls it: not an abort (of a running or of a completed run), not a
\* response or timer event arriving after the run is over, not a start.  A
\* call that succeeds adds one record and one that fails adds none.
C19_OneAppendAttemptPerCompletedRun ==
    [][ now' = now =>
        LET completes_pvt ==
              /\ view = "pvt"
              /\ IsActive(pvtEngine.state)
              /\ pvtEngine'.state = PvtCompleted
              /\ pvtEngine'.run_id = pvtEngine.run_id
            completes_main ==
              /\ view = "nback"
              /\ IsActive(nbackEngine.state)
              /\ nbackEngine.state.mode = "Main"
              /\ nbackEngine'.state = NBackCompleted("Main")
              /\ nbackEngine'.run_id = nbackEngine.run_id
        IN /\ lastEvent'.append # None <=> (completes_pvt \/ completes_main)
           /\ lastEvent'.append = Some(TRUE) => Len(summaries') = Len(summaries) + 1
           /\ lastEvent'.append # Some(TRUE) => summaries' = summaries
           /\ Handles("Abort") => lastEvent'.append = None
           /\ (view = "pvt" /\ ~IsActive(pvtEngine.state)) => lastEvent'.append = None
           /\ (view = "nback" /\ ~IsActive(nbackEngine.state)) => lastEvent'.append = None
      ]_vars

\* C19 witness: the first PVT run was completed and persisted, and a
\* response arriving afterwards has been ignored without a second record.
C19_Witness ==
    /\ view = "pvt"
    /\ pvtEngine.state = PvtCompleted
    /\ pvtEngine.run_id = 1
    /\ lastEvent.event.kind = "Respond"
    /\ lastEvent.ret = Ignored
    /\ lastEvent.append = None
    /\ Len(summaries) = 1
    /\ summaries[1].task = "pvt"

\* C20: when the write of the summary fails at the event that completes a
\* run, an error description is published, the store is left as it was, no
\* timer is scheduled and no later event of the finished run writes again,
\* and the metrics published (PVT last_metrics, n-back last_metrics of the
\* Main run) are the record computed from the run's trials, the same record
\* a successful write publishes.
C20_FailedWriteKeepsMetrics ==
    [][ now' = now =>
        /\ (view = "pvt" /\ lastEvent'.append # None)
           => /\ pvtSignals'.last_metrics = PvtEngine_metrics(pvtEngine')
              /\ pvtSignals'.last_metrics
                   = Some(PvtMetrics_from_trials(pvtEngine'.trials,
                                                 pvtEngine'.total_false_starts,
                                                 pvtEngine'.config.min_reaction_trials))
              /\ pvtSignals'.last_error # None <=> lastEvent'.append = Some(FALSE)
              /\ lastEvent'.append = Some(FALSE)
                 => /\ summaries' = summaries
                    /\ pvtTimers' \subseteq pvtTimers
        /\ (view = "nback" /\ lastEvent'.append # None)
           => /\ nbackSignals'.last_metrics = NBackEngine_main_metrics(nbackEngine')
              /\ nbackSignals'.last_metrics
                   = Some(NBackMetrics_from_trials(nbackEngine'.trials))
              /\ nbackSignals'.last_error # None <=> lastEvent'.append = Some(FALSE)
              /\ lastEvent'.append = Some(FALSE)
                 => /\ summaries' = summaries
                    /\ nbackTimers' \subseteq nbackTimers
        /\ (view = "pvt" /\ pvtEngine.state = PvtCompleted /\ pvtSignals.last_error # None)
           => /\ summaries' = summaries
              /\ lastEvent'.append = None
              /\ pvtEngine'.state = PvtCompleted => pvtSignals' = pvtSignals
        /\ (/\ view = "nback"
            /\ nbackEngine.state = NBackCompleted("Main")
            /\ nbackSignals.last_error # None)
           => /\ summaries' = summaries
              /\ lastEvent'.append = None
              /\ nbackEngine'.state = nbackEngine.state => nbackSignals' = nbackSignals
      ]_vars

\* C20 witness: the write of a completed n-back Main run has just failed:
\* the error is published, the store is empty and the run's metrics are
\* published all the same.
C20_Witness ==
    /\ view = "nback"
    /\ lastEvent.event.kind = "Advance"
    /\ lastEvent.append = Some(FALSE)
    /\ nbackEngine.state = NBackCompleted("Main")
    /\ nbackSignals.last_error # None
    /\ nbackSignals.last_metrics = Some(NBackMetrics_from_trials(nbackEngine.trials))
    /\ summaries = << >>

(***************************************************************************)
(* PVT metrics of scripted runs (PvtApiSpec).                              *)
(***************************************************************************)
PvtLapseCount(trials) ==
    Cardinality({k \in 1..Len(trials) :
                   \/ trials[k].outcome.tag = "Lapse"
                   \/ (trials[k].outcome.tag = "Reaction" /\ trials[k].outcome.rt_ms >= 500)})

PvtHasReaction(trials) == \E k \in 1..Len(trials) : trials[k].outcome.tag = "Reaction"

\* C23: the metrics of every trial list report as lapses_ge_500ms the number
\* of Lapse trials plus the number of Reaction trials of 500 ms or more, a
\* completed run without any Reaction included.  metrics() leaves the engine
\* alone, so the list it was computed from is the engine's.
C23_LapsesCountedForEveryList ==
    (lastEvent.event.kind = "metrics" /\ lastEvent.ret.some)
        => lastEvent.ret.value.lapses_ge_500ms = PvtLapseCount(pvtEngine.trials)

\* C24: the metrics of a trial list without a Reaction have total_trials the
\* number of non-Pending trials, false_starts the count handed in,
\* meets_min_trial_requirement false and every other statistic zero.
C24_NoReactionGivesZeroStatistics ==
    (lastEvent.event.kind = "metrics" /\ lastEvent.ret.some
       /\ ~PvtHasReaction(pvtEngine.trials))
        => lastEvent.ret.value =
             [total_trials |->
                  Cardinality({k \in 1..Len(pvtEngine.trials) :
                                 pvtEngine.trials[k].outcome # Pending}),
              reacted_trials |-> 0,
              median_rt_ms |-> F64(0), mean_rt_ms |-> F64(0), sd_rt_ms |-> F64(0),
              p10_rt_ms |-> F64(0), p90_rt_ms |-> F64(0),
              lapses_ge_500ms |-> 0, minor_lapses_355_499ms |-> 0,
              false_starts |-> pvtEngine.total_false_starts,
              time_on_task_slope_ms_per_min |-> F64(0),
              meets_min_trial_requirement |-> FALSE]

\* Metrics were read from a completed run of lapses and false starts only.
C24_Witness ==
    /\ lastEvent.event.kind = "metrics"
    /\ lastEvent.ret.some
    /\ ~PvtHasReaction(pvtEngine.trials)
    /\ \E k \in 1..Len(pvtEngine.trials) : pvtEngine.trials[k].outcome = Lapse
    /\ \E k \in 1..Len(pvtEngine.trials) : pvtEngine.trials[k].outcome = FalseStart
    /\ lastEvent.ret.value.total_trials = 3
    /\ lastEvent.ret.value.false_starts > 0

\* Trial k (from 0) was shown and answered rt_ms later.
PvtAnsweredAfter(eng, k, rt_ms) ==
    /\ k < Len(eng.trials)
    /\ eng.trials[k + 1].stimulus_onset.some
    /\ eng.trials[k + 1].response_at = Some(eng.trials[k + 1].stimulus_onset.value + rt_ms)

\* C25: scenario A.  After start; stimulus, response 50 ms later; stimulus,
\* response 300 ms later; stimulus: the timeout of the third trial leaves
\* the engine Completed with outcomes FalseStart, Reaction{300}, Lapse, and
\* metrics() gives total_trials 3, reacted_trials 1, false_starts 1,
\* lapses_ge_500ms 1, median_rt_ms 300 and meets_min_trial_requirement
\* exactly when 1 >= min_reaction_trials.
C25_ScenarioA ==
    [][(/\ Handles("register_timeout")
        /\ lastEvent'.event.trial_index = 2
        /\ pvtEngine.state = PvtStimulusActive(2)
        /\ PvtAnsweredAfter(pvtEngine, 0, 50)
        /\ PvtAnsweredAfter(pvtEngine, 1, 300))
       => /\ pvtEngine'.state = PvtCompleted
          /\ Len(pvtEngine'.trials) = 3
          /\ pvtEngine'.trials[1].outcome = FalseStart
          /\ pvtEngine'.trials[2].outcome = Reaction(300)
          /\ pvtEngine'.trials[3].outcome = Lapse
          /\ PvtEngine_metrics(pvtEngine').some
          /\ LET m == PvtEngine_metrics(pvtEngine').value IN
             /\ m.total_trials = 3
             /\ m.reacted_trials = 1
             /\ m.false_starts = 1
             /\ m.lapses_ge_500ms = 1
             /\ m.median_rt_ms = F64(300)
             /\ m.meets_min_trial_requirement
                  <=> (1 >= pvtEngine'.config.min_reaction_trials)]_vars

\* The script of scenario A has run to its end, for a minimum of reaction
\* trials that one reaction does not meet.
C25_Witness ==
    /\ lastEvent.event.kind = "register_timeout"
    /\ lastEvent.ret = RunCompleted
    /\ PvtAnsweredAfter(pvtEngine, 0, 50)
    /\ PvtAnsweredAfter(pvtEngine, 1, 300)
    /\ pvtEngine.trials[3].stimulus_onset.some
    /\ pvtEngine.state = PvtCompleted
    /\ pvtEngine.config.min_reaction_trials = 2

(***************************************************************************)
(* Generated 2-back sequences and scripted 2-back runs (NBackApiSpec).     *)
(***************************************************************************)
NBackTwoBack(trials) ==
    \A k \in 1..Len(trials) :
       /\ trials[k].index = k - 1
       /\ trials[k].is_target <=> (k >= 3 /\ trials[k].letter = trials[k - 2].letter)

NBackTargetCount(trials) == Cardinality({k \in 1..Len(trials) : trials[k].is_target})

\* C21: in every generated sequence, for every index i >= 2, is_target(i)
\* holds exactly when letter(i) equals letter(i-2); trials 0 and 1 are never
\* targets; and as long as the run is the same, no call of the engine
\* changes the letter or is_target of a trial.
C21_TwoBackTargetsFixed ==
    [][/\ NBackTwoBack(nbackEngine'.trials)
       /\ nbackEngine'.run_id = nbackEngine.run_id
          => /\ Len(nbackEngine'.trials) = Len(nbackEngine.trials)
             /\ \A k \in 1..Len(nbackEngine.trials) :
                  /\ nbackEngine'.trials[k].is_target = nbackEngine.trials[k].is_target
                  /\ nbackEngine'.trials[k].letter = nbackEngine.trials[k].letter]_vars

\* A run of four trials with a target and a non-target among the last two
\* has been answered and retired to its end.
C21_Witness ==
    /\ nbackEngine.state.tag = "Completed"
    /\ Len(nbackEngine.trials) = 4
    /\ \E k \in 3..4 : nbackEngine.trials[k].is_target
    /\ \E k \in 3..4 : ~nbackEngine.trials[k].is_target
    /\ \E k \in 1..4 : nbackEngine.trials[k].response.some
    /\ \A k \in 1..4 : nbackEngine.trials[k].outcome # Pending

\* The number of targets the stated rule gives a sequence of the given
\* length: round(target_ratio x (length - 2)), raised to 1 only when
\* length > 2 and target_ratio > 0, and capped at length - 2.
NBackStatedTargetCount(length, target_ratio) ==
    IF length <= 2 THEN 0
    ELSE LET raw == RoundRatio(length - 2, target_ratio)
             raised == IF raw < 1 /\ target_ratio.num > 0 THEN 1 ELSE raw
         IN IF raised > length - 2 THEN length - 2 ELSE raised

\* C22: the number of target trials of a generated sequence of length L is
\* round(target_ratio x (L - 2)), raised to 1 only when L > 2 and
\* target_ratio > 0, and capped at L - 2, a target_ratio of 0 included.
C22_TargetCountFollowsRatio ==
    nbackEngine.run_id > 0
        => NBackTargetCount(nbackEngine.trials)
             = NBackStatedTargetCount(Len(nbackEngine.trials), nbackEngine.config.target_ratio)

StatsInterpolated(sorted, fraction) ==
    LET rank == RatMul(fraction, F64(Len(sorted) - 1))
        below == rank.num \div rank.den
        part == [num |-> rank.num % rank.den, den |-> rank.den]
    IN IF part.num = 0 THEN sorted[below + 1]
       ELSE RatAdd(RatMul(RatSub(F64(1), part), sorted[below + 1]),
                   RatMul(part, sorted[below + 2]))

\* C27: for a sorted list of n >= 2 values and a fraction f in [0, 1],
\* percentile returns the linear interpolation at rank f x (n - 1) between
\* the floor-ranked and the ceil-ranked value; on [300, 400, 500, 600] it
\* gives p50 = 450, p10 = 330 and p90 = 570; and the PVT and the NBack copy
\* return the same value on every input.
C27_PercentileInterpolates ==
    (lastEvent.event.kind = "percentile" /\ lastEvent.ret.some)
        => LET sorted == lastEvent.event.sorted
               pct == lastEvent.event.pct
               returned == lastEvent.ret.value
           IN /\ returned.pvt = returned.nback
              /\ (Len(sorted) >= 2 /\ RatLeq(F64(0), pct) /\ RatLeq(pct, F64(1)))
                 => returned.pvt = StatsInterpolated(sorted, pct)
              /\ sorted = StatsExample
                 => /\ pct = Rat(1, 2) => returned.pvt = F64(450)
                    /\ pct = Rat(1, 10) => returned.pvt = F64(330)
                    /\ pct = Rat(9, 10) => returned.pvt = F64(570)

\* The 10th percentile of the worked example was computed, between ranks.
C27_Witness ==
    /\ lastEvent.event.kind = "percentile"
    /\ lastEvent.ret.some
    /\ lastEvent.event.sorted = StatsExample
    /\ lastEvent.event.pct = Rat(1, 10)
    /\ lastEvent.ret.value.pvt = F64(330)
    /\ lastEvent.ret.value.nback = F64(330)

\* C28 as stated: percentile and slope_minutes return 0.0 whenever their
\* input is empty or has a single element.
C28_ZeroForShortInput ==
    /\ (lastEvent.event.kind = "percentile" /\ lastEvent.ret.some
          /\ Len(lastEvent.event.sorted) <= 1)
       => /\ lastEvent.ret.value.pvt = F64(0)
          /\ lastEvent.ret.value.nback = F64(0)
    /\ (lastEvent.event.kind = "slope_minutes" /\ lastEvent.ret.some
          /\ (Len(lastEvent.event.xs_minutes) <= 1 \/ Len(lastEvent.event.ys_ms) <= 1))
       => lastEvent.ret.value = F64(0)

\* C28: percentile returns 0.0 for an empty input and the element itself
\* for an input of a single element, whatever the fraction; slope_minutes
\* returns 0.0 whenever one of its inputs is empty or has a single element.
C28_ShortInput ==
    /\ (lastEvent.event.kind = "percentile" /\ lastEvent.ret.some
          /\ Len(lastEvent.event.sorted) <= 1)
       => LET expected == IF Len(lastEvent.event.sorted) = 0 THEN F64(0)
                          ELSE lastEvent.event.sorted[1]
          IN /\ lastEvent.ret.value.pvt = expected
             /\ lastEvent.ret.value.nback = expected
    /\ (lastEvent.event.kind = "slope_minutes" /\ lastEvent.ret.some
          /\ (Len(lastEvent.event.xs_minutes) <= 1 \/ Len(lastEvent.event.ys_ms) <= 1))
       => lastEvent.ret.value = F64(0)

\* The median of a single value was computed: it is that value, not 0.0.
C28_Witness ==
    /\ lastEvent.event.kind = "percentile"
    /\ lastEvent.ret.some
    /\ lastEvent.event.sorted = << F64(300) >>
    /\ lastEvent.event.pct = Rat(1, 2)
    /\ lastEvent.ret.value.pvt = F64(300)
    /\ lastEvent.ret.value.nback = F64(300)

\* A value of inverse_normal_cdf taken strictly inside (0, 1).
StatsInsideUnit(z) ==
    /\ z.tag = "Finite"
    /\ RatLess(F64(0), z.p)
    /\ RatLess(z.p, F64(1))

\* C29: for targets > 0, non_targets > 0, hits in [0, targets] and
\* false_alarms in [0, non_targets], the corrected rates
\* (hits + 0.5) / (targets + 1) and (false_alarms + 0.5) / (non_targets + 1)
\* lie strictly between 0 and 1, the inverse normal CDF is evaluated
\* strictly inside (0, 1), and d-prime and criterion are finite.
C29_CorrectedRatesKeepIndicesFinite ==
    (/\ lastEvent.event.kind = "signal_detection_indices"
     /\ lastEvent.ret.some
     /\ lastEvent.event.counts.target_trials > 0
     /\ lastEvent.event.counts.non_target_trials > 0)
        => LET counts == lastEvent.event.counts
               indices == lastEvent.ret.value
           IN /\ indices.adjusted_hit_rate
                   = Rat(2 * counts.hits + 1, 2 * (counts.target_trials + 1))
              /\ indices.adjusted_fa_rate
                   = Rat(2 * counts.false_alarms + 1, 2 * (counts.non_target_trials + 1))
              /\ RatLess(F64(0), indices.adjusted_hit_rate)
              /\ RatLess(indices.adjusted_hit_rate, F64(1))
              /\ RatLess(F64(0), indices.adjusted_fa_rate)
              /\ RatLess(indices.adjusted_fa_rate, F64(1))
              /\ IsFinite(indices.d_prime)
              /\ IsFinite(indices.criterion)
              /\ indices.d_prime.tag = "Finite"
              /\ StatsInsideUnit(indices.d_prime.sum[1])
              /\ StatsInsideUnit(indices.d_prime.sum[2].negated)

\* The indices were computed for a run with every target hit and no false
\* alarm, where the uncorrected rates are 1 and 0.
C29_Witness ==
    /\ lastEvent.event.kind = "signal_detection_indices"
    /\ lastEvent.ret.some
    /\ lastEvent.event.counts.target_trials = 4
    /\ lastEvent.event.counts.hits = 4
    /\ lastEvent.event.counts.non_target_trials = 4
    /\ lastEvent.event.counts.false_alarms = 0
    /\ IsFinite(lastEvent.ret.value.d_prime)
    /\ IsFinite(lastEvent.ret.value.criterion)

(***************************************************************************)
(* Shape of the engines' trial lists.                                      *)
(***************************************************************************)
PvtOutcomeCount(trials, tag) ==
    Cardinality({k \in 1..Len(trials) : trials[k].outcome.tag = tag})

\* C35: in every reachable PVT engine state the trial at position k has
\* index k; at most one trial is Pending and it is the last one;
\* Waiting{i} or StimulusActive{i} implies that i is the last position and
\* trial i is Pending; StimulusActive{i} implies that trial i has a stimulus
\* onset recorded; Completed implies that no trial is Pending.
C35_PvtTrialListShape ==
    LET trials == pvtEngine.trials
        last == Len(trials)
    IN /\ \A k \in 1..last : trials[k].index = k - 1
       /\ \A k \in 1..last : trials[k].outcome = Pending => k = last
       /\ IsActive(pvtEngine.state)
          => /\ last >= 1
             /\ pvtEngine.state.trial_index = last - 1
             /\ trials[last].outcome = Pending
       /\ pvtEngine.state.tag = "StimulusActive" => trials[last].stimulus_onset.some
       /\ pvtEngine.state = PvtCompleted
          => \A k \in 1..last : trials[k].outcome # Pending

\* The stimulus of the second trial of a run is on, the first trial scored.
C35_Witness ==
    /\ pvtEngine.state = PvtStimulusActive(1)
    /\ Len(pvtEngine.trials) = 2
    /\ pvtEngine.trials[1].outcome # Pending
    /\ pvtEngine.trials[2].outcome = Pending
    /\ pvtEngine.trials[2].stimulus_onset.some

\* C36: in every reachable PVT engine state the accumulated false-start
\* count is the number of trials of the current run whose outcome is
\* FalseStart; so the false_starts of the metrics of a completed run is the
\* number of FalseStart trials, and reacted_trials + Lapse trials +
\* false_starts = total_trials.
C36_FalseStartCountMatchesTrials ==
    /\ pvtEngine.total_false_starts = PvtOutcomeCount(pvtEngine.trials, "FalseStart")
    /\ pvtEngine.state = PvtCompleted
       => LET m == PvtEngine_metrics(pvtEngine).value IN
          /\ m.false_starts = PvtOutcomeCount(pvtEngine.trials, "FalseStart")
          /\ m.reacted_trials = PvtOutcomeCount(pvtEngine.trials, "Reaction")
          /\ m.reacted_trials + PvtOutcomeCount(pvtEngine.trials, "Lapse") + m.false_starts
               = m.total_trials

\* A run completed with a false start and a reaction.
C36_Witness ==
    /\ pvtEngine.state = PvtCompleted
    /\ pvtEngine.total_false_starts = 1
    /\ PvtOutcomeCount(pvtEngine.trials, "FalseStart") = 1
    /\ PvtOutcomeCount(pvtEngine.trials, "Reaction") = 1
    /\ PvtEngine_metrics(pvtEngine).value.total_trials = 2

NBackOutcomeCount(trials, tag) ==
    Cardinality({k \in 1..Len(trials) : trials[k].outcome.tag = tag})

\* The metrics the engine cached for the run of the given mode.
NBackCachedMetrics(eng, mode) ==
    IF mode = "Practice" THEN eng.last_practice_metrics ELSE eng.last_main_metrics

NBackOutcomesMatchTargets(eng) ==
    /\ \A k \in 1..Len(eng.trials) :
         /\ eng.trials[k].outcome.tag \in {"Hit", "Miss"} => eng.trials[k].is_target
         /\ eng.trials[k].outcome.tag \in {"FalseAlarm", "CorrectRejection"}
            => ~eng.trials[k].is_target
    /\ eng.state.tag = "Completed"
       => /\ \A k \in 1..Len(eng.trials) : eng.trials[k].outcome # Pending
          /\ NBackCachedMetrics(eng, eng.state.mode).some
          /\ LET m == NBackCachedMetrics(eng, eng.state.mode).value IN
             /\ m.hits + m.misses = m.target_trials
             /\ m.false_alarms + m.correct_rejections = m.non_target_trials
             /\ m.target_trials + m.non_target_trials = m.total_trials
             /\ m.total_trials = Len(eng.trials)

\* C37: in every reachable NBack engine state Hit and Miss occur only on
\* target trials and FalseAlarm and CorrectRejection only on non-target
\* trials; an outcome that is no longer Pending never changes during the
\* run; in Completed no trial is Pending and the cached metrics satisfy
\* hits + misses = target_trials, false_alarms + correct_rejections =
\* non_target_trials and target_trials + non_target_trials = total_trials.
C37_NBackOutcomesMatchTargets ==
    [][/\ NBackOutcomesMatchTargets(nbackEngine')
       /\ nbackEngine'.run_id = nbackEngine.run_id
          => \A k \in 1..Len(nbackEngine.trials) :
               nbackEngine.trials[k].outcome # Pending
               => nbackEngine'.trials[k].outcome = nbackEngine.trials[k].outcome]_vars

\* A Main run ended with a hit or a miss and with a false alarm or a
\* correct rejection, one of its trials answered.
C37_Witness ==
    /\ nbackEngine.state = NBackCompleted("Main")
    /\ nbackEngine.last_main_metrics.some
    /\ nbackEngine.last_main_metrics.value.target_trials >= 1
    /\ nbackEngine.last_main_metrics.value.non_target_trials >= 1
    /\ nbackEngine.last_main_metrics.value.response_count >= 1
    /\ lastEvent.event.kind = "Advance"

\* C38: NBack register_response never changes the engine state or the
\* current trial index: after a recorded response the engine stays in
\* StimulusActive{i}; the response schedules nothing; and while a run is
\* active its trial index moves on only by the advance of that trial.
C38_ResponseLeavesTrialOpen ==
    [][/\ Handles("Respond")
          => /\ nbackEngine'.state = nbackEngine.state
             /\ nbackTimers' = nbackTimers
             /\ lastEvent'.ret.tag = "Recorded"
                => /\ nbackEngine'.state.tag = "StimulusActive"
                   /\ nbackEngine'.trials[nbackEngine'.state.trial_index + 1].response.some
       /\ (/\ IsActive(nbackEngine.state)
           /\ nbackEngine'.run_id = nbackEngine.run_id
           /\ nbackEngine'.state.tag # "Aborted"
           /\ nbackEngine'.state # nbackEngine.state
           /\ nbackEngine.state.tag = "StimulusActive")
          => /\ lastEvent'.event.kind = "Advance"
             /\ lastEvent'.event.trial_index = nbackEngine.state.trial_index]_vars

\* A response was recorded on the second trial and the engine still shows it.
C38_Witness ==
    /\ view = "nback"
    /\ lastEvent.event.kind = "Respond"
    /\ lastEvent.ret.tag = "Recorded"
    /\ nbackEngine.state.tag = "StimulusActive"
    /\ nbackEngine.state.trial_index = 1
    /\ nbackEngine.trials[2].response.some

\* C39: whenever the NBack engine state is Waiting{i} or StimulusActive{i},
\* i is a valid position of the trial list (i < number of trials), for
\* every configured run length, and StimulusActive{i} implies that trial i
\* has an onset recorded.
C39_ActiveIndexInRange ==
    IsActive(nbackEngine.state)
        => /\ nbackEngine.state.trial_index < Len(nbackEngine.trials)
           /\ nbackEngine.state.tag = "StimulusActive"
              => nbackEngine.trials[nbackEngine.state.trial_index + 1].presented_at.some

\* C34: after abort() and until the next start(), no timer event
\* (StimulusReady, Timeout, Advance) and no user response changes the engine
\* state, any trial or any counter, even when the timer carries the current
\* run_id; and once Completed, only start() and abort() change the engine
\* (both engines).
C34_InertAfterAbortOrCompletion ==
    [][/\ (pvtEngine.state.tag \in {"Aborted", "Completed"} /\ pvtEngine' # pvtEngine)
          => /\ view = "pvt"
             /\ now' = now
             /\ lastEvent'.event.kind \in {"Start", "Abort"}
       /\ (nbackEngine.state.tag \in {"Aborted", "Completed"} /\ nbackEngine' # nbackEngine)
          => /\ view = "nback"
             /\ now' = now
             /\ lastEvent'.event.kind \in {"StartPractice", "StartMain", "Abort"}]_vars

\* The timeout of the trial that was shown when the run was aborted has
\* fired, carrying the run's number, and was ignored.
C34_Witness ==
    /\ view = "pvt"
    /\ pvtEngine.state = PvtAborted
    /\ lastEvent.event.kind = "Timeout"
    /\ lastEvent.event.run_id = pvtEngine.run_id
    /\ lastEvent.ret = Ignored
    /\ pvtEngine.trials[Len(pvtEngine.trials)].outcome = Pending
    /\ pvtEngine.trials[Len(pvtEngine.trials)].stimulus_onset.some

C32_OnsetsOneCycleApart ==
    LET trials == nbackEngine.trials
        config == nbackEngine.config
    IN /\ \A k \in 1..(Len(trials) - 1) :
            (trials[k].presented_at.some /\ trials[k + 1].presented_at.some)
            => duration_ms(trials[k].presented_at.value, trials[k + 1].presented_at.value)
                 = config.stimulus_ms + config.interstimulus_interval_ms
       /\ nbackEngine.state.tag = "StimulusActive"
          => duration_ms(trials[nbackEngine.state.trial_index + 1].presented_at.value, now)
               <= config.stimulus_ms

\* C33: if every scheduled timer eventually fires and no abort is issued,
\* every run begun by start() eventually reaches Completed, for every run
\* length (0 included) and any pattern of responses.
C33_StartedRunCompletes ==
    [](IsActive(nbackEngine.state)
         => <>(nbackEngine.state.tag \in {"Completed", "Aborted"}))

====
